---- MODULE Spec2Model ----
(***************************************************************************)
(* SoilStory client: the localStorage record store (SoilStorage), the API  *)
(* client with its demo fallback (SoilAPI) and the page session            *)
(* (SoilStoryApp).                                                         *)
(*                                                                         *)
(* A JavaScript object is a TLA+ function from its own keys to values; a   *)
(* key the object does not have is not in its DOMAIN.  An id is a tuple    *)
(* <<kind, ...>> standing for the string the code builds; the empty tuple  *)
(* stands for the empty string.  An instant is a natural number and a      *)
(* timestamp is the instant its ISO string denotes.                        *)
(***************************************************************************)
EXTENDS Integers, Sequences, FiniteSets, TLC

VARIABLES
    lsAnalyses,     \* localStorage['soilstory_analyses']: [present, val]
    lsSettings,     \* localStorage['soilstory_settings']: [present, val]
    tabs,           \* the saveAnalysis call of each other tab of the origin
    clock,          \* the wall clock read by Date.now() / new Date()
    genCount,       \* number of random suffixes generateId has drawn
    lastOp,         \* the SoilStorage call of the last step: arguments and outcome
    saveRun,        \* history: the records saved since the store was empty
    currentPhotoFile,   \* SoilStoryApp.currentPhotoFile: Null or Some(file)
    currentAnalysis,    \* SoilStoryApp.currentAnalysis: Null or Some(record)
    isAnalyzing,        \* SoilStoryApp.isAnalyzing
    isGeneratingVideo,  \* SoilStoryApp.isGeneratingVideo
    historyView,        \* the history page: #emptyHistory shown, the items of
                        \* #historyGrid, how the last loadHistory ended, the
                        \* getHistory result it had and what the probe gave
    alert,          \* the message showAlert was given in the last step, or ""
    lastEvent,      \* the handler or continuation that ran in the last step
    analyzeCalls,   \* the SoilAPI.analyzeSoil calls that have not resolved yet
    videoCalls,     \* the SoilAPI.generateVideo calls that have not resolved yet
    lastAnalyze,    \* the analyzeSoil call the last step resolved, with its result
    lastVideo,      \* the generateVideo call the last step resolved, with its result
    started,        \* how many analyzeSoil / generateVideo calls were started
    statusCheck,    \* checkAPIStatus(): "none" without a page, "pending" while
                    \* it awaits getAPIStatus(), then "done"
    locationCalls,  \* the getCurrentPosition() requests that have not settled
    historyCalls    \* the loadHistory() calls that have not reached their end

appVars == <<currentPhotoFile, currentAnalysis, isAnalyzing, isGeneratingVideo,
             historyView>>
apiVars == <<analyzeCalls, videoCalls, lastAnalyze, lastVideo, started>>
pageVars == <<statusCheck, locationCalls, historyCalls>>
vars == <<lsAnalyses, lsSettings, tabs, clock, genCount, lastOp, saveRun,
          currentPhotoFile, currentAnalysis, isAnalyzing, isGeneratingVideo,
          historyView, alert, lastEvent,
          analyzeCalls, videoCalls, lastAnalyze, lastVideo, started,
          statusCheck, locationCalls, historyCalls>>

----------------------------------------------------------------------------
(* Bounds of the model *)

\* this.maxStorageSize; the constructor sets 50, the model runs a small store
maxStorageSize == 3
\* instants the clock can show are 1..MaxClock
MaxClock == 2
\* how many ids generateId may produce in one behaviour
MaxGen == 2
\* how many saves beyond the capacity the save history follows
MaxOverflow == 2

----------------------------------------------------------------------------
(* JavaScript values *)

Undefined == "undefined"
Null == <<>>
Some(x) == <<x>>
EmptyString == <<>>
EmptyObject == [k \in {} |-> 0]

\* keys whose values are strings in the model (the only ones given undefined)
StringKeys == {"story", "videoPath", "videoUrl", "imageFile"}

\* !o.id is false: the key is there and its value is not the empty string
HasId(o) == "id" \in DOMAIN o /\ o.id # EmptyString
HasTimestamp(o) == "timestamp" \in DOMAIN o /\ o.timestamp # 0

\* a merge that keeps only the id of the old record beside the new keys
SpreadOverwrite(a, u) ==
    [k \in ({"id"} \cap DOMAIN a) \cup (DOMAIN u) |->
        IF k \in DOMAIN u THEN u[k] ELSE a[k]]

\* { ...a, ...u }
Spread(a, u) ==
    [k \in (DOMAIN a) \cup (DOMAIN u) |-> IF k \in DOMAIN u THEN u[k] ELSE a[k]]

\* JSON.parse(JSON.stringify(o)) of one record: a key whose value is undefined
\* is not written
JsonRecord(o) ==
    [k \in {j \in DOMAIN o : ~(j \in StringKeys /\ o[j] = Undefined)} |-> o[k]]

\* JSON.parse(JSON.stringify(list))
JsonList(list) == [i \in 1..Len(list) |-> JsonRecord(list[i])]

----------------------------------------------------------------------------
(* SoilStorage *)

\* the environment of one call: "ok", "quota" (the sentinel fits, the
\* collection does not) or "unavailable" (every setItem throws)
StorageEnvs == {"ok", "quota", "unavailable"}

\* a probe that always finds the storage usable
isStorageAvailableAlways(env) == TRUE

isStorageAvailable(env) == env # "unavailable"

NoItem == [present |-> FALSE, val |-> <<>>]
Item(list) == [present |-> TRUE, val |-> list]

generateId(now, rnd) == <<"analysis", now, rnd>>

\* payloads that are not the text of an array: text JSON.parse rejects, and
\* the text of an object, whose parsed value ObjectValue stands for
ObjectValue == <<"object">>
UnparseableItem == [present |-> TRUE, val |-> <<>>, kind |-> "unparseable"]
ObjectItem == [present |-> TRUE, val |-> ObjectValue, kind |-> "object"]
IsCorrupt(item) == "kind" \in DOMAIN item

\* getAnalyses(): data ? JSON.parse(data) : [], and [] when parse throws
getAnalyses(item, env) ==
    IF ~isStorageAvailable(env) THEN <<>>
    ELSE IF ~item.present THEN <<>>
    ELSE IF IsCorrupt(item) /\ item.kind = "unparseable" THEN <<>>
    ELSE item.val

\* getAnalyses() returned a value that has no find, filter or slice
NotAnArray(item, env) ==
    isStorageAvailable(env) /\ IsCorrupt(item) /\ item.kind = "object"

\* an insertion at the tail (push in place of unshift)
UnshiftAtTail(list, analysis) == list \o <<analysis>>

\* analyses.unshift(analysis)
Unshift(list, analysis) == <<analysis>> \o list

\* a truncation that drops the head and keeps the last n
SpliceKeepsTail(list, n) ==
    IF Len(list) > n THEN SubSeq(list, Len(list) - n + 1, Len(list)) ELSE list

\* if (analyses.length > n) analyses.splice(n)
Splice(list, n) == IF Len(list) > n THEN SubSeq(list, 1, n) ELSE list

\* the record saveAnalysis stores for its argument
WithIdAndTimestamp(analysis, now, rnd) ==
    LET a1 == IF HasId(analysis) THEN analysis
              ELSE Spread(analysis, [id |-> generateId(now, rnd)])
    IN  IF HasTimestamp(a1) THEN a1 ELSE Spread(a1, [timestamp |-> now])

\* a saveAnalysis whose write is partly done when the medium refuses it
saveAnalysisPartialWrite(item, analysis, env, now, rnd) ==
    IF ~isStorageAvailable(env)
    THEN [threw |-> TRUE, item |-> item, ret |-> EmptyString, arg |-> analysis]
    ELSE LET a == WithIdAndTimestamp(analysis, now, rnd)
             analyses == Splice(Unshift(getAnalyses(item, env), a), maxStorageSize)
         IN  [threw |-> env = "quota", item |-> Item(JsonList(analyses)),
              ret |-> IF env = "quota" THEN EmptyString ELSE a.id, arg |-> a]

\* saveAnalysis(analysis): [threw, item, ret, arg]; arg is the argument object
\* after the call (the code assigns id and timestamp to it)
saveAnalysis(item, analysis, env, now, rnd) ==
    IF ~isStorageAvailable(env)
    THEN [threw |-> TRUE, item |-> item, ret |-> EmptyString, arg |-> analysis]
    ELSE LET a == WithIdAndTimestamp(analysis, now, rnd)
             analyses == Splice(Unshift(getAnalyses(item, env), a), maxStorageSize)
         \* setItem throws, or analyses.unshift is not a function
         IN  IF env = "quota" \/ NotAnArray(item, env)
             THEN [threw |-> TRUE, item |-> item, ret |-> EmptyString, arg |-> a]
             ELSE [threw |-> FALSE, item |-> Item(JsonList(analyses)),
                   ret |-> a.id, arg |-> a]

\* o.id: the id, or undefined when o has no id; undefined === undefined
UndefinedId == <<"undefined">>
IdOf(o) == IF "id" \in DOMAIN o THEN o.id ELSE UndefinedId

\* a findIndex that answers the first position when nothing matches
FindIndexOrFirst(list, id) ==
    IF \E i \in 1..Len(list) : IdOf(list[i]) = id
    THEN CHOOSE i \in 1..Len(list) :
            /\ IdOf(list[i]) = id
            /\ \A j \in 1..(i - 1) : IdOf(list[j]) # id
    ELSE IF list = <<>> THEN 0 ELSE 1

\* analyses.findIndex(analysis => analysis.id === id); 0 stands for -1.  A
\* record without an id matches the id undefined
FindIndex(list, id) ==
    IF \E i \in 1..Len(list) : IdOf(list[i]) = id
    THEN CHOOSE i \in 1..Len(list) :
            /\ IdOf(list[i]) = id
            /\ \A j \in 1..(i - 1) : IdOf(list[j]) # id
    ELSE 0

\* getAnalysis(id): analyses.find(analysis => analysis.id === id), Null for
\* undefined
getAnalysis(item, id, env) ==
    LET analyses == getAnalyses(item, env)
        index == FindIndex(analyses, id)
    IN  IF index = 0 THEN Null ELSE Some(analyses[index])

\* updateAnalysis(id, updates): [threw, item]
updateAnalysis(item, id, updates, env) ==
    IF ~isStorageAvailable(env) THEN [threw |-> TRUE, item |-> item]
    ELSE LET analyses == getAnalyses(item, env)
             index == FindIndex(analyses, id)
         IN  IF index = 0 THEN [threw |-> TRUE, item |-> item]
             ELSE IF env = "quota" THEN [threw |-> TRUE, item |-> item]
             ELSE [threw |-> FALSE,
                   item |-> Item(JsonList(
                       [analyses EXCEPT ![index] = Spread(analyses[index], updates)]))]

\* a filter that keeps every record
FilterKeepsAll(list, id) == list

\* analyses.filter(analysis => analysis.id !== id)
FilterNotId(list, id) ==
    LET Keep(r) == IdOf(r) # id
    IN  SelectSeq(list, Keep)

\* deleteAnalysis(id): [threw, item]
deleteAnalysis(item, id, env) ==
    IF ~isStorageAvailable(env) THEN [threw |-> TRUE, item |-> item]
    ELSE IF env = "quota" THEN [threw |-> TRUE, item |-> item]
    ELSE [threw |-> FALSE,
          item |-> Item(JsonList(FilterNotId(getAnalyses(item, env), id)))]

\* a clearAnalyses that stores an empty array under the key
clearAnalysesWritesEmpty(item, env) ==
    IF ~isStorageAvailable(env) THEN [threw |-> TRUE, item |-> item]
    ELSE [threw |-> FALSE, item |-> Item(<<>>)]

\* clearAnalyses(): removeItem does not write, so a full medium does not stop it
clearAnalyses(item, env) ==
    IF ~isStorageAvailable(env) THEN [threw |-> TRUE, item |-> item]
    ELSE [threw |-> FALSE, item |-> NoItem]

\* String.prototype.toLowerCase over the Latin letters
UpperCaseLetters == "ABCDEFGHIJKLMNOPQRSTUVWXYZ"
LowerCaseLetters == "abcdefghijklmnopqrstuvwxyz"

\* the lower-case letter of each upper-case letter
LowerCaseOf ==
    [c \in {SubSeq(UpperCaseLetters, i, i) : i \in 1..Len(UpperCaseLetters)} |->
        LET i == CHOOSE j \in 1..Len(UpperCaseLetters) :
                    SubSeq(UpperCaseLetters, j, j) = c
        IN  SubSeq(LowerCaseLetters, i, i)]

ToLowerCaseChar(c) == IF c \in DOMAIN LowerCaseOf THEN LowerCaseOf[c] ELSE c

RECURSIVE ToLowerCase(_)
ToLowerCase(str) ==
    IF Len(str) = 0 THEN ""
    ELSE ToLowerCaseChar(SubSeq(str, 1, 1)) \o ToLowerCase(SubSeq(str, 2, Len(str)))

\* String.prototype.trim, the blank being the white space of the model
RECURSIVE Trim(_)
Trim(str) ==
    IF Len(str) = 0 THEN ""
    ELSE IF SubSeq(str, 1, 1) = " " THEN Trim(SubSeq(str, 2, Len(str)))
    ELSE IF SubSeq(str, Len(str), Len(str)) = " "
         THEN Trim(SubSeq(str, 1, Len(str) - 1))
    ELSE str

\* String.prototype.includes
Includes(str, term) ==
    \E i \in 1..(Len(str) - Len(term) + 1) :
        SubSeq(str, i, i + Len(term) - 1) = term

\* the ISO string of the instant a timestamp of the model stands for
IsoString(t) == "2025-01-0" \o ToString(t) \o "T00:00:00.000Z"

\* the callback of analyses.filter in searchAnalyses, story only
SearchMatchesStoryOnly(a, searchTerm) ==
    "story" \in DOMAIN a /\ a.story # ""
        /\ Includes(ToLowerCase(a.story), searchTerm)

\* the callback of analyses.filter in searchAnalyses
SearchMatches(a, searchTerm) ==
    \/ "story" \in DOMAIN a /\ a.story # ""
         /\ Includes(ToLowerCase(a.story), searchTerm)
    \/ /\ "location" \in DOMAIN a
       /\ a.location # Null
       /\ \/ "lat" \in DOMAIN a.location[1]
               /\ Includes(ToString(a.location[1].lat), searchTerm)
          \/ "lon" \in DOMAIN a.location[1]
               /\ Includes(ToString(a.location[1].lon), searchTerm)
    \/ HasTimestamp(a)
         /\ Includes(ToLowerCase(IsoString(a.timestamp)), searchTerm)

\* a searchAnalyses that finds nothing for a blank query
searchAnalysesBlankIsEmpty(item, query, env) ==
    LET analyses == getAnalyses(item, env)
        Matches(a) == SearchMatches(a, Trim(ToLowerCase(query)))
    IN  IF query = "" \/ Trim(query) = "" THEN <<>>
        ELSE SelectSeq(analyses, Matches)

\* searchAnalyses(query)
searchAnalyses(item, query, env) ==
    LET analyses == getAnalyses(item, env)
        Matches(a) == SearchMatches(a, Trim(ToLowerCase(query)))
    IN  IF query = "" \/ Trim(query) = "" THEN analyses
        ELSE SelectSeq(analyses, Matches)

\* a slice that takes the element at end as well
SliceInclusive(list, start, end) ==
    LET len == Len(list)
        Clamp(k) == IF k < 0
                    THEN (IF len + k < 0 THEN 0 ELSE len + k)
                    ELSE (IF k > len THEN len ELSE k)
    IN  SubSeq(list, Clamp(start) + 1, Clamp(end + 1))

\* Array.prototype.slice(start, end)
Slice(list, start, end) ==
    LET len == Len(list)
        Clamp(k) == IF k < 0
                    THEN (IF len + k < 0 THEN 0 ELSE len + k)
                    ELSE (IF k > len THEN len ELSE k)
    IN  SubSeq(list, Clamp(start) + 1, Clamp(end))

\* getAnalysesPaginated(page, pageSize), for pageSize >= 1
getAnalysesPaginated(item, page, pageSize, env) ==
    LET analyses == getAnalyses(item, env)
        startIndex == (page - 1) * pageSize
        endIndex == startIndex + pageSize
    IN  [data |-> Slice(analyses, startIndex, endIndex),
         total |-> Len(analyses),
         page |-> page,
         pageSize |-> pageSize,
         totalPages |-> (Len(analyses) + pageSize - 1) \div pageSize]

\* data.settings && typeof data.settings === 'object'
HasSettings(data) == "settings" \in DOMAIN data

\* an importData that adds the imported records to the stored ones
importDataAppends(item, data, env) ==
    IF ~isStorageAvailable(env) THEN [threw |-> TRUE, item |-> item]
    ELSE IF ~data.parses THEN [threw |-> TRUE, item |-> item]
    ELSE IF ~data.hasAnalyses
    THEN [threw |-> HasSettings(data) /\ env = "quota", item |-> item]
    ELSE IF env = "quota" THEN [threw |-> TRUE, item |-> item]
    ELSE [threw |-> FALSE,
          item |-> Item(JsonList(data.analyses) \o getAnalyses(item, env))]

\* importData(jsonData): data is [parses, hasAnalyses, analyses] and, when
\* the text has a settings object, settings; [threw, item] is the outcome
\* and the analyses key after it
importData(item, data, env) ==
    IF ~isStorageAvailable(env) THEN [threw |-> TRUE, item |-> item]
    ELSE IF ~data.parses THEN [threw |-> TRUE, item |-> item]
    ELSE IF ~data.hasAnalyses
    THEN [threw |-> HasSettings(data) /\ env = "quota", item |-> item]
    ELSE IF env = "quota" THEN [threw |-> TRUE, item |-> item]
    ELSE [threw |-> FALSE, item |-> Item(JsonList(data.analyses))]

\* the settings key after importData(jsonData): written when the text has a
\* settings object and nothing threw before
importDataSettings(item, data, env) ==
    IF env = "ok" /\ data.parses /\ HasSettings(data)
    THEN Item(data.settings) ELSE item

----------------------------------------------------------------------------
(* SoilAPI *)

\* what a fetch does: resolves with a 2xx status, resolves with another
\* status, or rejects (network error)
FetchOutcomes == {"ok", "notOk", "error"}

\* checkHealth(): response.ok, and false when fetch rejects
checkHealth(h) == h = "ok"

\* Math.random() returns k / RandDen with 0 <= k < RandDen. RandDen is a power
\* of two, so that k / RandDen and, the ranges' ends being multiples of 0.5,
\* random * (max - min) + min are exact doubles: toFixed(1) and Math.round
\* then round the very number the integers below round
RandDen == 1024
RandomSamples == {0, RandDen \div 2, RandDen - 1}

\* a range computed as random * max + min (the span max - min forgotten)
getRandomValueNoSpan(min10, max10, decimals, k) ==
    LET num == k * max10 + min10 * RandDen
    IN  IF decimals = 0
        THEN 10 * ((2 * num + 10 * RandDen) \div (20 * RandDen))
        ELSE (2 * num + RandDen) \div (2 * RandDen)

\* getRandomValue(min, max, decimals) with Math.random() = k / RandDen.
\* min10, max10 and the result are in tenths; num / RandDen is the unrounded
\* value in tenths.  decimals = 0 is Math.round (to the nearest integer, a
\* half upwards), otherwise toFixed(1) (to the nearest tenth).
getRandomValue(min10, max10, decimals, k) ==
    LET num == k * (max10 - min10) + min10 * RandDen
    IN  IF decimals = 0
        THEN 10 * ((2 * num + 10 * RandDen) \div (20 * RandDen))
        ELSE (2 * num + RandDen) \div (2 * RandDen)

conditions ==
    <<"Partly cloudy", "Sunny", "Overcast", "Light rain",
      "Clear skies", "Misty", "Light breeze", "Calm">>

\* conditions[Math.floor(Math.random() * conditions.length)]
getRandomWeather(k) == conditions[((k * Len(conditions)) \div RandDen) + 1]

stories == <<"story 1", "story 2", "story 3", "story 4">>

\* n.toFixed(4) of a whole number of degrees
ToFixed4(n) == ToString(n) \o ".0000"

\* generateDemoStory(location)
generateDemoStory(location, k) ==
    LET story == stories[((k * Len(stories)) \div RandDen) + 1]
    IN  IF location # Null
        THEN story \o " Based on your location coordinates ("
                   \o ToFixed4(location[1].lat) \o ", "
                   \o ToFixed4(location[1].lon) \o ")"
        ELSE story

\* the object getDemoAnalysis resolves with; draws gives Math.random() for
\* each value drawn
getDemoAnalysis(imageFile, location, now, draws) ==
    [success |-> TRUE,
     data |-> [id |-> <<"demo", now>>,
               imagePath |-> <<"blob", imageFile.name>>,
               analysis |-> [pH |-> getRandomValue(55, 80, 1, draws.pH),
                             OM |-> getRandomValue(10, 50, 1, draws.OM),
                             P |-> getRandomValue(100, 500, 0, draws.P),
                             EC |-> getRandomValue(5, 25, 1, draws.EC),
                             moisture |-> getRandomValue(150, 350, 0, draws.moisture)],
               weather |-> IF location # Null
                           THEN Some([tempC |-> getRandomValue(150, 300, 0, draws.rest),
                                      humidity |-> getRandomValue(400, 800, 0, draws.rest),
                                      weather |-> getRandomWeather(draws.rest),
                                      windSpeed |-> getRandomValue(50, 200, 1, draws.rest)])
                           ELSE Null,
               story |-> generateDemoStory(location, draws.rest),
               timestamp |-> now,
               isDemo |-> TRUE]]

\* a placeholder that is not marked synthetic
getDemoVideoUnmarked ==
    [success |-> TRUE,
     data |-> [videoPath |-> "/static/demo-video.mp4",
               videoUrl |-> "/static/demo-video.mp4"]]

\* the object getDemoVideo resolves with
getDemoVideo ==
    [success |-> TRUE,
     data |-> [videoPath |-> "/static/demo-video.mp4",
               videoUrl |-> "/static/demo-video.mp4",
               isDemo |-> TRUE]]

\* lat and lon are appended when location && location.lat && location.lon
FormData(imageFile, location) ==
    IF location # Null /\ location[1].lat # 0 /\ location[1].lon # 0
    THEN [photo |-> imageFile.name, lat |-> location[1].lat, lon |-> location[1].lon]
    ELSE [photo |-> imageFile.name]

\* analyzeSoil(imageFile, location) up to its first await
NewAnalyzeCall(caller, imageFile, location) ==
    [caller |-> caller, imageFile |-> imageFile, location |-> location,
     pc |-> "health", probe |-> "pending", requested |-> FALSE,
     remote |-> "none", received |-> Null, synthesized |-> FALSE,
     timerAt |-> 0, form |-> EmptyObject]

\* getDemoAnalysis(imageFile, location) up to setTimeout
StartDemoAnalysis(call, now) ==
    [call EXCEPT !.pc = "demo", !.synthesized = TRUE, !.timerAt = now]

\* a health check that is not looked at: the request is always made
AnalyzeOnHealthAlwaysRemote(call, h, now) ==
    [call EXCEPT !.probe = IF checkHealth(h) THEN "true" ELSE "false",
                 !.pc = "fetch", !.requested = TRUE,
                 !.form = FormData(call.imageFile, call.location)]

\* analyzeSoil after await this.checkHealth()
AnalyzeOnHealth(call, h, now) ==
    IF ~checkHealth(h)
    THEN StartDemoAnalysis([call EXCEPT !.probe = "false"], now)
    ELSE [call EXCEPT !.probe = "true", !.pc = "fetch", !.requested = TRUE,
                      !.form = FormData(call.imageFile, call.location)]

\* analyzeSoil after await fetch(analyze): a rejected fetch or a status that
\* is not ok lands in the catch block
AnalyzeOnResponse(call, r, now) ==
    IF r = "ok" THEN [call EXCEPT !.pc = "json"]
    ELSE StartDemoAnalysis([call EXCEPT !.remote = "failed"], now)

\* a catch block that reports the failure
AnalyzeOnJsonReportsFailure(call, body, now) ==
    IF body = Null
    THEN [call |-> [call EXCEPT !.remote = "failed", !.pc = "done"],
          result |-> Some([success |-> FALSE, data |-> EmptyObject])]
    ELSE [call |-> [call EXCEPT !.remote = "ok", !.received = body, !.pc = "done"],
          result |-> Some([success |-> TRUE, data |-> body[1]])]

\* analyzeSoil after await response.json(): body is Null when the body does
\* not parse.  [call, result]: result is Null while the call goes on
AnalyzeOnJson(call, body, now) ==
    IF body = Null
    THEN [call |-> StartDemoAnalysis([call EXCEPT !.remote = "failed"], now),
          result |-> Null]
    ELSE [call |-> [call EXCEPT !.remote = "ok", !.received = body, !.pc = "done"],
          result |-> Some([success |-> TRUE, data |-> body[1]])]

\* generateVideo(analysisId, storyText, imagePath) up to its first await
NewVideoCall(analysisId) ==
    [analysisId |-> analysisId, pc |-> "health", probe |-> "pending",
     requested |-> FALSE, remote |-> "none", synthesized |-> FALSE, timerAt |-> 0]

\* getDemoVideo(analysisId, storyText) up to setTimeout
StartDemoVideo(call, now) ==
    [call EXCEPT !.pc = "demo", !.synthesized = TRUE, !.timerAt = now]

\* generateVideo after await this.checkHealth()
VideoOnHealth(call, h, now) ==
    IF ~checkHealth(h)
    THEN StartDemoVideo([call EXCEPT !.probe = "false"], now)
    ELSE [call EXCEPT !.probe = "true", !.pc = "fetch", !.requested = TRUE]

\* makeRequest after await fetch(url, config): a failure makes makeRequest
\* return success: false, on which generateVideo throws and falls back
VideoOnResponse(call, r, now) ==
    IF r = "ok" THEN [call EXCEPT !.pc = "json"]
    ELSE StartDemoVideo([call EXCEPT !.remote = "failed"], now)

\* makeRequest after await response.json(): when the body does not parse,
\* response.text() rejects (the body is used up), makeRequest returns
\* success: false and generateVideo falls back
VideoOnJson(call, body, now) ==
    IF body = Null
    THEN [call |-> StartDemoVideo([call EXCEPT !.remote = "failed"], now),
          result |-> Null]
    ELSE [call |-> [call EXCEPT !.remote = "ok", !.pc = "done"],
          result |-> Some([success |-> TRUE, data |-> body[1]])]

----------------------------------------------------------------------------
(* SoilStoryApp *)

\* 10 * 1024 * 1024
MaxUploadBytes == 10 * 1024 * 1024

\* a validation without the size limit
handlePhotoUploadAnySize(file) ==
    IF file.type[1] # "image/" THEN "notImage" ELSE "staged"

\* handlePhotoUpload(file): "notImage", "tooLarge" or "staged"
handlePhotoUpload(file) ==
    IF file.type[1] # "image/" THEN "notImage"
    ELSE IF file.size > MaxUploadBytes THEN "tooLarge"
    ELSE "staged"

\* an entry check without the isAnalyzing guard
appAnalyzeSoilEntryNoGuard(photo, analyzing) ==
    IF photo = Null THEN "noFile" ELSE "start"

\* an entry check that returns silently when no file is staged
appAnalyzeSoilEntrySilent(photo, analyzing) ==
    IF photo = Null \/ analyzing THEN "busy" ELSE "start"

\* analyzeSoil() before the try block: "noFile", "busy" or "start"
appAnalyzeSoilEntry(photo, analyzing) ==
    IF photo = Null THEN "noFile"
    ELSE IF analyzing THEN "busy"
    ELSE "start"

\* an entry check without the isGeneratingVideo guard
appGenerateVideoEntryNoGuard(analysis, generating) ==
    IF analysis = Null THEN "return" ELSE "start"

\* generateVideo() before the try block: "return" or "start"
appGenerateVideoEntry(analysis, generating) ==
    IF analysis = Null \/ generating THEN "return" ELSE "start"

\* o[k], undefined when o has no key k
StringAt(o, k) == IF k \in DOMAIN o THEN o[k] ELSE Undefined

\* saveAnalysis(analysis): the object handed to window.soilStorage.saveAnalysis
appSaveAnalysisData(analysis, photo, now) ==
    Spread(analysis,
           [timestamp |-> now,
            imageFile |-> IF photo # Null THEN photo[1].name ELSE "Unknown"])

\* a saveAnalysis without its catch: the error of the store reaches the
\* catch of analyzeSoil
appSaveAnalysisAlertUncaught(threw) ==
    IF threw THEN "Analysis failed. Please try again." ELSE ""

\* saveAnalysis(analysis): what its catch block shows when the store throws
appSaveAnalysisAlert(threw) ==
    IF threw THEN "Failed to save analysis to local storage." ELSE ""

\* updateAnalysisWithVideo(videoData): the updates handed to updateAnalysis
videoUpdates(videoData) ==
    [videoPath |-> StringAt(videoData, "videoPath"),
     videoUrl |-> StringAt(videoData, "videoUrl")]

\* a finally block that releases the flag only after a success
videoFlagAfterOnSuccessOnly(failed) == failed

\* generateVideo(): isGeneratingVideo after the finally block
videoFlagAfter(failed) == FALSE

----------------------------------------------------------------------------
(* Inputs of the direct SoilStorage calls *)

UserIds == {<<"user", 1>>, <<"user", 2>>}

SaveInputs ==
    { [story |-> "s1"],
      [id |-> <<"user", 1>>, story |-> "s1"],
      [id |-> <<"user", 2>>, timestamp |-> 1, story |-> "s2"] }

UpdateInputs ==
    { [story |-> "new"],
      [videoPath |-> Undefined, videoUrl |-> "v2"] }

ImportRecord(i) == [id |-> <<"user", i>>, timestamp |-> 1, story |-> "s1"]

ImportInputs ==
    { [parses |-> FALSE, hasAnalyses |-> FALSE, analyses |-> <<>>],
      [parses |-> TRUE, hasAnalyses |-> FALSE, analyses |-> <<>>] }
    \cup { [parses |-> TRUE, hasAnalyses |-> TRUE,
            analyses |-> [i \in 1..n |-> ImportRecord(i)]] :
           n \in {0, 2, maxStorageSize + 1} }

----------------------------------------------------------------------------
(* History of the saves since the store was empty *)

NoRun == [on |-> FALSE, log |-> <<>>]
NewRun == [on |-> TRUE, log |-> <<>>]

\* a successful save extends the history, most recent first, until the
\* history is MaxOverflow longer than the capacity
RunAfterSave(run, rec) ==
    IF run.on /\ Len(run.log) < maxStorageSize + MaxOverflow
    THEN [on |-> TRUE, log |-> <<rec>> \o run.log]
    ELSE NoRun

NoOp == [op |-> "none", id |-> EmptyString, upd |-> EmptyObject,
         rec |-> EmptyObject, ok |-> FALSE, env |-> "ok"]

\* a step in which no analyzeSoil and no generateVideo call resolves
NothingResolves == lastAnalyze' = Null /\ lastVideo' = Null

\* what a call made on window.soilStorage leaves of the page: nothing is
\* given to showAlert, no call of SoilAPI moves
StoreStep ==
    /\ alert' = ""
    /\ NothingResolves
    /\ UNCHANGED <<appVars, analyzeCalls, videoCalls, started, pageVars>>

----------------------------------------------------------------------------
(* Actions: direct calls of the SoilStorage methods *)

StoreSave(analysis, env, now) ==
    /\ HasId(analysis) \/ genCount < MaxGen
    /\ LET r == saveAnalysis(lsAnalyses, analysis, env, now, genCount + 1)
       IN  /\ lsAnalyses' = r.item
           /\ clock' = now
           /\ genCount' = IF HasId(analysis) \/ ~isStorageAvailable(env)
                          THEN genCount ELSE genCount + 1
           /\ lastOp' = [op |-> "save", id |-> r.ret, upd |-> EmptyObject,
                         rec |-> IF r.threw THEN EmptyObject ELSE JsonRecord(r.arg),
                         ok |-> ~r.threw, env |-> env]
           /\ saveRun' = IF r.threw THEN saveRun
                         ELSE RunAfterSave(saveRun, JsonRecord(r.arg))
           /\ lastEvent' = "storage.saveAnalysis"
           /\ UNCHANGED <<lsSettings, tabs>> /\ StoreStep

StoreUpdate(id, updates, env) ==
    LET r == updateAnalysis(lsAnalyses, id, updates, env)
    IN  /\ lsAnalyses' = r.item
        /\ lastOp' = [op |-> "update", id |-> id, upd |-> updates,
                      rec |-> EmptyObject, ok |-> ~r.threw, env |-> env]
        /\ saveRun' = IF r.threw THEN saveRun ELSE NoRun
        /\ lastEvent' = "storage.updateAnalysis"
        /\ UNCHANGED <<lsSettings, tabs, clock, genCount>> /\ StoreStep

StoreDelete(id, env) ==
    LET r == deleteAnalysis(lsAnalyses, id, env)
    IN  /\ lsAnalyses' = r.item
        /\ lastOp' = [op |-> "delete", id |-> id, upd |-> EmptyObject,
                      rec |-> EmptyObject, ok |-> ~r.threw, env |-> env,
                      removed |-> Len(getAnalyses(lsAnalyses, "ok"))
                                    - Len(getAnalyses(r.item, "ok"))]
        /\ saveRun' = IF r.threw THEN saveRun ELSE NoRun
        /\ lastEvent' = "storage.deleteAnalysis"
        /\ UNCHANGED <<lsSettings, tabs, clock, genCount>> /\ StoreStep

StoreClear(env) ==
    LET r == clearAnalyses(lsAnalyses, env)
    IN  /\ lsAnalyses' = r.item
        /\ lastOp' = [op |-> "clear", id |-> EmptyString, upd |-> EmptyObject,
                      rec |-> EmptyObject, ok |-> ~r.threw, env |-> env]
        /\ saveRun' = IF r.threw THEN saveRun ELSE NewRun
        /\ lastEvent' = "storage.clearAnalyses"
        /\ UNCHANGED <<lsSettings, tabs, clock, genCount>> /\ StoreStep

StoreImport(data, env) ==
    LET r == importData(lsAnalyses, data, env)
    IN  /\ lsAnalyses' = r.item
        /\ lastOp' = [op |-> "import", id |-> EmptyString, upd |-> EmptyObject,
                      rec |-> EmptyObject, ok |-> ~r.threw, env |-> env]
        /\ lsSettings' = importDataSettings(lsSettings, data, env)
        /\ UNCHANGED tabs
        /\ saveRun' = IF r.threw \/ ~data.hasAnalyses THEN saveRun ELSE NoRun
        /\ lastEvent' = "storage.importData"
        /\ UNCHANGED <<clock, genCount>> /\ StoreStep

----------------------------------------------------------------------------
(* The store on its own *)

\* the tabs that share the storage with the session
Tabs == {1, 2}

\* a tab that has not called saveAnalysis
IdleTab == [pc |-> "idle", analyses |-> <<>>, analysis |-> EmptyObject,
            order |-> 0, seen |-> {}]

\* the history page before loadHistory has run
NoHistoryView ==
    [emptyHistory |-> FALSE, historyGrid |-> <<>>, outcome |-> "none",
     api |-> Null, probe |-> FALSE]

InitCommon ==
    /\ lsAnalyses = NoItem
    /\ lsSettings = NoItem
    /\ tabs = [t \in Tabs |-> IdleTab]
    /\ historyView = NoHistoryView
    /\ clock = 1
    /\ genCount = 0
    /\ lastOp = NoOp
    /\ currentPhotoFile = Null
    /\ currentAnalysis = Null
    /\ isAnalyzing = FALSE
    /\ isGeneratingVideo = FALSE
    /\ alert = ""
    /\ lastEvent = "constructor"
    /\ analyzeCalls = <<>>
    /\ videoCalls = <<>>
    /\ lastAnalyze = Null
    /\ lastVideo = Null
    /\ started = [analyze |-> 0, video |-> 0]

\* no page is open: nothing of SoilStoryApp is waiting
NoPage ==
    /\ statusCheck = "none"
    /\ locationCalls = 0
    /\ historyCalls = <<>>

InitStore == InitCommon /\ NoPage /\ saveRun = NewRun

NextStore ==
    \/ \E a \in SaveInputs, env \in StorageEnvs, now \in clock..MaxClock :
          StoreSave(a, env, now)
    \/ \E id \in UserIds, u \in UpdateInputs, env \in StorageEnvs :
          StoreUpdate(id, u, env)
    \/ \E id \in UserIds, env \in StorageEnvs : StoreDelete(id, env)
    \/ \E env \in StorageEnvs : StoreClear(env)
    \/ \E d \in ImportInputs, env \in StorageEnvs : StoreImport(d, env)

SpecStore == InitStore /\ [][NextStore]_vars

----------------------------------------------------------------------------
(* The store with its read methods *)

ReadIds == UserIds \cup {generateId(1, 1)}
Queries == {"", "  ", "S1", "s1", " new ", "zz", "T00", "77"}
Pages == {-1, 0, 1, 2}
PageSizes == {1, 2}
\* the records saved before reading: the ones that come with an id
LocatedRecord ==
    [id |-> <<"user", 2>>, timestamp |-> 1, story |-> "Red Soil",
     location |-> Some([lat |-> 12, lon |-> 77])]
ReadSaveInputs == {a \in SaveInputs : HasId(a) /\ ~HasTimestamp(a)} \cup {LocatedRecord}
\* a read writes nothing, so a full medium is to it a working one
ReadEnvs == {"ok", "unavailable"}

ReadOp(op, id, env, out) ==
    [op |-> op, id |-> id, upd |-> EmptyObject, rec |-> EmptyObject,
     ok |-> TRUE, env |-> env, out |-> out]

StoreRead(op) ==
    /\ lastOp' = op
    /\ lastEvent' = "storage." \o op.op
    /\ UNCHANGED <<lsAnalyses, lsSettings, tabs, clock, genCount, saveRun>> /\ StoreStep

StoreGetAnalyses(env) ==
    StoreRead(ReadOp("getAnalyses", EmptyString, env, getAnalyses(lsAnalyses, env)))

\* a read that threw a TypeError: nothing is returned
ReadThrew(op, id, env) == [ReadOp(op, id, env, Null) EXCEPT !.ok = FALSE]

\* getAnalysis(id) over the stored payload; analyses.find is not a function
\* when the payload is not an array
GetAnalysisOp(id, env) ==
    IF NotAnArray(lsAnalyses, env)
    THEN ReadThrew("getAnalysis", id, env)
    ELSE ReadOp("getAnalysis", id, env, getAnalysis(lsAnalyses, id, env))

StoreGetAnalysis(id, env) == StoreRead(GetAnalysisOp(id, env))

\* searchAnalyses(query) over the stored payload: a blank query returns what
\* getAnalyses() gave; otherwise analyses.filter is not a function when the
\* payload is not an array
SearchOp(query, env) ==
    (IF NotAnArray(lsAnalyses, env) /\ Trim(query) # ""
     THEN ReadThrew("searchAnalyses", EmptyString, env)
     ELSE ReadOp("searchAnalyses", EmptyString, env,
                 IF NotAnArray(lsAnalyses, env)
                 THEN getAnalyses(lsAnalyses, env)
                 ELSE searchAnalyses(lsAnalyses, query, env)))
      @@ [query |-> query]

StoreSearchAnalyses(query, env) == StoreRead(SearchOp(query, env))

\* analyses.slice is not a function
StoreGetAnalysesPaginated(page, pageSize, env) ==
    StoreRead(IF NotAnArray(lsAnalyses, env)
              THEN ReadThrew("getAnalysesPaginated", EmptyString, env)
              ELSE ReadOp("getAnalysesPaginated", EmptyString, env,
                          getAnalysesPaginated(lsAnalyses, page, pageSize, env)))

NextReads ==
    \/ \E a \in ReadSaveInputs, env \in StorageEnvs : StoreSave(a, env, clock)
    \/ \E id \in UserIds, u \in UpdateInputs, env \in StorageEnvs :
          StoreUpdate(id, u, env)
    \/ \E id \in UserIds, env \in StorageEnvs : StoreDelete(id, env)
    \/ \E env \in StorageEnvs : StoreClear(env)
    \/ \E env \in ReadEnvs : StoreGetAnalyses(env)
    \/ \E id \in ReadIds, env \in ReadEnvs : StoreGetAnalysis(id, env)
    \/ \E q \in Queries, env \in ReadEnvs : StoreSearchAnalyses(q, env)
    \/ \E page \in Pages, size \in PageSizes, env \in ReadEnvs :
          StoreGetAnalysesPaginated(page, size, env)

SpecReads == InitStore /\ [][NextReads]_vars

----------------------------------------------------------------------------
(* Inputs of the session *)

\* how many calls of one kind the model lets be in flight
MaxCalls == 2
\* how many analyzeSoil calls, and how many generateVideo calls, one
\* behaviour starts
MaxAnalyses == 2
MaxVideos == 2
\* how many calls of both kinds together one behaviour starts
MaxStarted == 3

Files ==
    { [name |-> "soil.jpg", type |-> <<"image/", "jpeg">>, size |-> 2048],
      [name |-> "notes.txt", type |-> <<"text/", "plain">>, size |-> 2048],
      [name |-> "huge.png", type |-> <<"image/", "png">>, size |-> MaxUploadBytes + 1] }

\* the latitude and longitude fields: both empty, or both filled in
Locations == {Null, Some([lat |-> 12, lon |-> 77])}

RemoteAnalysis == [pH |-> 65, OM |-> 30, P |-> 200, EC |-> 10, moisture |-> 250]

\* what await response.json() gives for the analyze endpoint: Null when the
\* body does not parse
AnalyzeBodies ==
    { Null,
      Some([id |-> <<"server", 1>>, imagePath |-> <<"uploads", "1">>,
            analysis |-> RemoteAnalysis, story |-> "remote story"]),
      Some([imagePath |-> <<"uploads", "2">>,
            analysis |-> RemoteAnalysis, story |-> "remote story"]),
      Some([id |-> <<"server", 2>>, story |-> "remote story"]) }

\* what await response.json() gives for the video endpoint
VideoBodies ==
    { Null,
      Some([videoPath |-> "/videos/1.mp4", videoUrl |-> "/videos/1.mp4"]),
      Some([videoUrl |-> "/videos/1.mp4"]) }

\* Math.random() in one getDemoAnalysis: the same sample for every value,
\* the least or the greatest
SharedDraws ==
    { [pH |-> k, OM |-> k, P |-> k, EC |-> k, moisture |-> k, rest |-> k] :
      k \in {0, RandDen - 1} }

\* Math.random() in one getDemoAnalysis: a sample for each soil metric
MetricDraws ==
    [pH : RandomSamples, OM : RandomSamples, P : RandomSamples,
     EC : RandomSamples, moisture : RandomSamples, rest : {0, RandDen - 1}]

RemoveAt(s, i) == SubSeq(s, 1, i - 1) \o SubSeq(s, i + 1, Len(s))

----------------------------------------------------------------------------
(* Actions: the handlers of SoilStoryApp and the steps of SoilAPI *)

\* what a step that calls no SoilStorage method and resolves no call leaves
NoStoreCall ==
    lastOp' = NoOp /\ UNCHANGED <<lsAnalyses, lsSettings, tabs, genCount, saveRun>>

AppHandlePhotoUpload(file) ==
    LET outcome == handlePhotoUpload(file)
    IN  /\ currentPhotoFile' = IF outcome = "staged" THEN Some(file)
                               ELSE currentPhotoFile
        /\ alert' = IF outcome = "notImage" THEN "Please select an image file."
                    ELSE IF outcome = "tooLarge"
                    THEN "Image file is too large. Please select an image under 10MB."
                    ELSE ""
        /\ lastEvent' = "handlePhotoUpload"
        /\ NoStoreCall /\ NothingResolves
        /\ UNCHANGED <<currentAnalysis, isAnalyzing, isGeneratingVideo,
                       historyView, analyzeCalls, videoCalls, started, clock, pageVars>>

\* removePhoto(), resetResults() included
AppRemovePhoto ==
    /\ currentPhotoFile' = Null
    /\ currentAnalysis' = Null
    /\ alert' = ""
    /\ lastEvent' = "removePhoto"
    /\ NoStoreCall /\ NothingResolves
    /\ UNCHANGED <<isAnalyzing, isGeneratingVideo, historyView, analyzeCalls,
                   videoCalls, started, clock, pageVars>>

\* analyzeSoil() up to await window.soilAPI.analyzeSoil(...)
AppAnalyzeSoil(location) ==
    LET entry == appAnalyzeSoilEntry(currentPhotoFile, isAnalyzing)
    IN  /\ Len(analyzeCalls) < MaxCalls
        /\ entry = "start" =>
              /\ started.analyze < MaxAnalyses
              /\ started.analyze + started.video < MaxStarted
        /\ started' = IF entry = "start"
                      THEN [started EXCEPT !.analyze = @ + 1] ELSE started
        /\ lastEvent' = "analyzeSoil"
        /\ alert' = IF entry = "noFile" THEN "Please select a photo first." ELSE ""
        /\ isAnalyzing' = IF entry = "start" THEN TRUE ELSE isAnalyzing
        /\ analyzeCalls' =
              IF entry = "start"
              THEN Append(analyzeCalls,
                          NewAnalyzeCall("app", currentPhotoFile[1], location))
              ELSE analyzeCalls
        /\ NoStoreCall /\ NothingResolves
        /\ UNCHANGED <<currentPhotoFile, currentAnalysis, isGeneratingVideo,
                       historyView, videoCalls, clock, pageVars>>

\* analyzeSoil() after the await: displayResults, saveAnalysis, finally
AppAnalyzeSoilDone(result, env, now) ==
    LET data == result.data
        analysisData == appSaveAnalysisData(data, currentPhotoFile, now)
        r == saveAnalysis(lsAnalyses, analysisData, env, now, genCount + 1)
        \* updateSoilProperties reads data.analysis.pH
        displayed == result.success /\ "analysis" \in DOMAIN data
    IN  /\ HasId(data) \/ genCount < MaxGen
        /\ currentAnalysis' = IF result.success THEN Some(data) ELSE currentAnalysis
        /\ isAnalyzing' = FALSE
        /\ IF displayed
           THEN /\ lsAnalyses' = r.item
                /\ genCount' = IF HasId(data) \/ ~isStorageAvailable(env)
                               THEN genCount ELSE genCount + 1
                /\ lastOp' = [op |-> "save", id |-> r.ret, upd |-> EmptyObject,
                              rec |-> IF r.threw THEN EmptyObject
                                      ELSE JsonRecord(r.arg),
                              ok |-> ~r.threw, env |-> env]
                /\ alert' = appSaveAnalysisAlert(r.threw)
           ELSE /\ alert' = "Analysis failed. Please try again."
                /\ lastOp' = NoOp
                /\ UNCHANGED <<lsAnalyses, genCount>>
        /\ UNCHANGED <<currentPhotoFile, isGeneratingVideo, historyView, saveRun,
                       lsSettings, tabs>>

\* an analyzeSoil call resolves: its caller goes on in the same step
AnalyzeResolved(call, result, env, now) ==
    /\ lastAnalyze' = Some([call |-> call, result |-> result])
    /\ lastVideo' = Null
    /\ lastEvent' = "analyzeSoil resolved"
    /\ IF call.caller = "app"
       THEN AppAnalyzeSoilDone(result, env, now)
       ELSE /\ alert' = ""
            /\ NoStoreCall
            /\ UNCHANGED appVars

AnalyzeHealthResolves(i, h) ==
    /\ analyzeCalls[i].pc = "health"
    /\ analyzeCalls' = [analyzeCalls EXCEPT ![i] = AnalyzeOnHealth(@, h, clock)]
    /\ lastEvent' = "analyzeSoil health"
    /\ alert' = ""
    /\ NoStoreCall /\ NothingResolves
    /\ UNCHANGED <<appVars, clock, videoCalls, started, pageVars>>

AnalyzeFetchResolves(i, r) ==
    /\ analyzeCalls[i].pc = "fetch"
    /\ analyzeCalls' = [analyzeCalls EXCEPT ![i] = AnalyzeOnResponse(@, r, clock)]
    /\ lastEvent' = "analyzeSoil response"
    /\ alert' = ""
    /\ NoStoreCall /\ NothingResolves
    /\ UNCHANGED <<appVars, clock, videoCalls, started, pageVars>>

AnalyzeJsonResolves(i, body, env) ==
    /\ analyzeCalls[i].pc = "json"
    /\ LET o == AnalyzeOnJson(analyzeCalls[i], body, clock)
       IN  IF o.result = Null
           THEN /\ analyzeCalls' = [analyzeCalls EXCEPT ![i] = o.call]
                /\ lastEvent' = "analyzeSoil body"
                /\ alert' = ""
                /\ NoStoreCall /\ NothingResolves
                /\ UNCHANGED appVars
           ELSE /\ analyzeCalls' = RemoveAt(analyzeCalls, i)
                /\ AnalyzeResolved(o.call, o.result[1], env, clock)
    /\ UNCHANGED <<clock, videoCalls, started, pageVars>>

\* the setTimeout callback of getDemoAnalysis, 2 s after it was set
AnalyzeDemoResolves(i, now, draws, env) ==
    /\ analyzeCalls[i].pc = "demo"
    /\ now > analyzeCalls[i].timerAt
    /\ clock' = now
    /\ analyzeCalls' = RemoveAt(analyzeCalls, i)
    /\ AnalyzeResolved([analyzeCalls[i] EXCEPT !.pc = "done"],
                       getDemoAnalysis(analyzeCalls[i].imageFile,
                                       analyzeCalls[i].location, now, draws),
                       env, now)
    /\ UNCHANGED <<videoCalls, started, pageVars>>

\* generateVideo() up to await window.soilAPI.generateVideo(...)
AppGenerateVideo ==
    LET entry == appGenerateVideoEntry(currentAnalysis, isGeneratingVideo)
    IN  /\ Len(videoCalls) < MaxCalls
        /\ entry = "start" =>
              /\ started.video < MaxVideos
              /\ started.analyze + started.video < MaxStarted
        /\ started' = IF entry = "start"
                      THEN [started EXCEPT !.video = @ + 1] ELSE started
        /\ lastEvent' = "generateVideo"
        /\ alert' = ""
        /\ isGeneratingVideo' = IF entry = "start" THEN TRUE ELSE isGeneratingVideo
        /\ videoCalls' =
              IF entry = "start"
              THEN Append(videoCalls, NewVideoCall(IdOf(currentAnalysis[1])))
              ELSE videoCalls
        /\ NoStoreCall /\ NothingResolves
        /\ UNCHANGED <<currentPhotoFile, currentAnalysis, isAnalyzing,
                       historyView, analyzeCalls, clock, pageVars>>

\* generateVideo() after the await: displayVideoResult,
\* updateAnalysisWithVideo, finally
AppGenerateVideoDone(result, env) ==
    LET \* displayVideoResult reads this.currentAnalysis.id
        failed == ~result.success \/ currentAnalysis = Null
        id == IdOf(currentAnalysis[1])
        updates == videoUpdates(result.data)
        r == updateAnalysis(lsAnalyses, id, updates, env)
    IN  /\ isGeneratingVideo' = videoFlagAfter(failed)
        /\ IF failed
           THEN /\ alert' = "Video generation failed. Please try again."
                /\ lastOp' = NoOp
                /\ UNCHANGED lsAnalyses
           ELSE /\ lsAnalyses' = r.item
                /\ lastOp' = [op |-> "update", id |-> id, upd |-> updates,
                              rec |-> EmptyObject, ok |-> ~r.threw, env |-> env]
                /\ alert' = ""
        /\ UNCHANGED <<currentPhotoFile, currentAnalysis, isAnalyzing,
                       historyView, genCount, saveRun, lsSettings, tabs>>

VideoResolved(call, result, env) ==
    /\ lastVideo' = Some([call |-> call, result |-> result])
    /\ lastAnalyze' = Null
    /\ lastEvent' = "generateVideo resolved"
    /\ AppGenerateVideoDone(result, env)

VideoHealthResolves(i, h) ==
    /\ videoCalls[i].pc = "health"
    /\ videoCalls' = [videoCalls EXCEPT ![i] = VideoOnHealth(@, h, clock)]
    /\ lastEvent' = "generateVideo health"
    /\ alert' = ""
    /\ NoStoreCall /\ NothingResolves
    /\ UNCHANGED <<appVars, clock, analyzeCalls, started, pageVars>>

VideoFetchResolves(i, r) ==
    /\ videoCalls[i].pc = "fetch"
    /\ videoCalls' = [videoCalls EXCEPT ![i] = VideoOnResponse(@, r, clock)]
    /\ lastEvent' = "generateVideo response"
    /\ alert' = ""
    /\ NoStoreCall /\ NothingResolves
    /\ UNCHANGED <<appVars, clock, analyzeCalls, started, pageVars>>

VideoJsonResolves(i, body, env) ==
    /\ videoCalls[i].pc = "json"
    /\ LET o == VideoOnJson(videoCalls[i], body, clock)
       IN  IF o.result = Null
           THEN /\ videoCalls' = [videoCalls EXCEPT ![i] = o.call]
                /\ lastEvent' = "generateVideo body"
                /\ alert' = ""
                /\ NoStoreCall /\ NothingResolves
                /\ UNCHANGED appVars
           ELSE /\ videoCalls' = RemoveAt(videoCalls, i)
                /\ VideoResolved(o.call, o.result[1], env)
    /\ UNCHANGED <<clock, analyzeCalls, started, pageVars>>

\* the setTimeout callback of getDemoVideo, 3 s after it was set
VideoDemoResolves(i, now, env) ==
    /\ videoCalls[i].pc = "demo"
    /\ now > videoCalls[i].timerAt
    /\ clock' = now
    /\ videoCalls' = RemoveAt(videoCalls, i)
    /\ VideoResolved([videoCalls[i] EXCEPT !.pc = "done"], getDemoVideo, env)
    /\ UNCHANGED <<analyzeCalls, started, pageVars>>

\* window.soilAPI.analyzeSoil(imageFile, location) called on its own
ApiAnalyzeSoil(imageFile, location) ==
    /\ Len(analyzeCalls) < 1
    /\ analyzeCalls' = Append(analyzeCalls,
                              NewAnalyzeCall("direct", imageFile, location))
    /\ lastEvent' = "api.analyzeSoil"
    /\ alert' = ""
    /\ NoStoreCall /\ NothingResolves
    /\ UNCHANGED <<appVars, clock, videoCalls, started, pageVars>>

\* getAPIStatus() after await this.checkHealth(); of getStorageInfo() the
\* session follows the available flag
getAPIStatus(h, env) ==
    [backend |-> checkHealth(h), storage |-> isStorageAvailable(env),
     demoMode |-> ~checkHealth(h)]

\* checkAPIStatus() after await window.soilAPI.getAPIStatus(): the probe the
\* constructor started settles
CheckAPIStatusResolves(h, env) ==
    LET status == getAPIStatus(h, env)
    IN  /\ statusCheck = "pending"
        /\ statusCheck' = "done"
        /\ alert' = IF status.demoMode
                    THEN "Running in demo mode. Backend server is not available."
                    ELSE ""
        /\ lastOp' = ReadOp("getStorageInfo", EmptyString, env,
                            [available |-> status.storage])
        /\ lastEvent' = "checkAPIStatus"
        /\ NothingResolves
        /\ UNCHANGED <<lsAnalyses, lsSettings, tabs, genCount, saveRun, clock,
                       appVars, analyzeCalls, videoCalls, started,
                       locationCalls, historyCalls>>

\* how many getCurrentPosition() requests the model lets be in flight
MaxLocationCalls == 1

\* handleLocationToggle(useLocation) up to await this.getCurrentPosition();
\* without navigator.geolocation the promise is rejected at once
AppHandleLocationToggle(useLocation, supported) ==
    LET asks == useLocation /\ supported
    IN  /\ asks => locationCalls < MaxLocationCalls
        /\ locationCalls' = IF asks THEN locationCalls + 1 ELSE locationCalls
        /\ alert' = IF useLocation /\ ~supported
                    THEN "Could not get your location. Please enter coordinates manually."
                    ELSE ""
        /\ lastEvent' = "handleLocationToggle"
        /\ NoStoreCall /\ NothingResolves
        /\ UNCHANGED <<appVars, clock, analyzeCalls, videoCalls, started,
                       statusCheck, historyCalls>>

\* handleLocationToggle after the await: the position arrived and is written
\* to the latitude and longitude fields, which analyzeSoil reads as its
\* location, or the request failed
LocationResolves(obtained) ==
    /\ locationCalls > 0
    /\ locationCalls' = locationCalls - 1
    /\ alert' = IF obtained THEN "Location obtained successfully!"
                ELSE "Could not get your location. Please enter coordinates manually."
    /\ lastEvent' = "handleLocationToggle resolved"
    /\ NoStoreCall /\ NothingResolves
    /\ UNCHANGED <<appVars, clock, analyzeCalls, videoCalls, started,
                   statusCheck, historyCalls>>

\* exportAnalysisData(analysisId): success when getAnalysis finds the record;
\* anything thrown is caught
exportAnalysisData(item, analysisId, env) ==
    [success |-> /\ ~NotAnArray(item, env)
                 /\ getAnalysis(item, analysisId, env) # Null]

\* the ids exportAnalysis is called with: the id of the most recent stored
\* record as the template literal '${analysis.id}' writes it, and an id that
\* may be missing. For a record without id the literal is the text
\* 'undefined', which is not the value undefined and matches no such record
ExportIds ==
    (IF NotAnArray(lsAnalyses, "ok") THEN {}
     ELSE { IF "id" \in DOMAIN getAnalyses(lsAnalyses, "ok")[i]
            THEN getAnalyses(lsAnalyses, "ok")[i].id
            ELSE <<"text", "undefined">> :
              i \in DOMAIN getAnalyses(lsAnalyses, "ok") \cap {1} })
    \cup {<<"user", 1>>}

\* exportAnalysis(analysisId)
AppExportAnalysis(analysisId, env) ==
    /\ alert' = IF exportAnalysisData(lsAnalyses, analysisId, env).success
                THEN "Analysis exported successfully!"
                ELSE "Failed to export analysis."
    /\ lastOp' = GetAnalysisOp(analysisId, env)
    /\ lastEvent' = "exportAnalysis"
    /\ NothingResolves
    /\ UNCHANGED <<lsAnalyses, lsSettings, tabs, genCount, saveRun, clock,
                   appVars, analyzeCalls, videoCalls, started, pageVars>>

----------------------------------------------------------------------------
(* The session: one SoilStoryApp on the index page, with SoilAPI and SoilStorage *)

\* the constructor on the index page: checkAPIStatus() awaits getAPIStatus()
IndexPage ==
    /\ statusCheck = "pending"
    /\ locationCalls = 0
    /\ historyCalls = <<>>

Init == InitCommon /\ IndexPage /\ saveRun = NoRun

Next ==
    \/ \E f \in Files : AppHandlePhotoUpload(f)
    \/ AppRemovePhoto
    \/ \E loc \in Locations : AppAnalyzeSoil(loc)
    \/ \E i \in DOMAIN analyzeCalls, h \in FetchOutcomes : AnalyzeHealthResolves(i, h)
    \/ \E i \in DOMAIN analyzeCalls, r \in FetchOutcomes : AnalyzeFetchResolves(i, r)
    \/ \E i \in DOMAIN analyzeCalls, b \in AnalyzeBodies, env \in StorageEnvs :
          AnalyzeJsonResolves(i, b, env)
    \/ \E i \in DOMAIN analyzeCalls, now \in clock..MaxClock,
          d \in SharedDraws, env \in StorageEnvs :
          AnalyzeDemoResolves(i, now, d, env)
    \/ AppGenerateVideo
    \/ \E i \in DOMAIN videoCalls, h \in FetchOutcomes : VideoHealthResolves(i, h)
    \/ \E i \in DOMAIN videoCalls, r \in FetchOutcomes : VideoFetchResolves(i, r)
    \/ \E i \in DOMAIN videoCalls, b \in VideoBodies, env \in StorageEnvs :
          VideoJsonResolves(i, b, env)
    \/ \E i \in DOMAIN videoCalls, now \in clock..MaxClock, env \in StorageEnvs :
          VideoDemoResolves(i, now, env)
    \/ \E h \in FetchOutcomes : CheckAPIStatusResolves(h, "ok")
    \/ \E useLocation \in BOOLEAN, supported \in BOOLEAN :
          AppHandleLocationToggle(useLocation, supported)
    \/ \E obtained \in BOOLEAN : LocationResolves(obtained)
    \/ \E id \in ExportIds : AppExportAnalysis(id, "ok")

Spec == Init /\ [][Next]_vars

----------------------------------------------------------------------------
(* SoilAPI.analyzeSoil on its own, every soil metric with its own draw *)

\* locations a caller of the API can pass: on the equator as well
ApiLocations == Locations \cup {Some([lat |-> 0, lon |-> 77])}

NextApi ==
    \/ \E loc \in ApiLocations :
          ApiAnalyzeSoil(CHOOSE f \in Files : handlePhotoUpload(f) = "staged", loc)
    \/ \E i \in DOMAIN analyzeCalls, h \in FetchOutcomes : AnalyzeHealthResolves(i, h)
    \/ \E i \in DOMAIN analyzeCalls, r \in FetchOutcomes : AnalyzeFetchResolves(i, r)
    \/ \E i \in DOMAIN analyzeCalls, b \in AnalyzeBodies :
          AnalyzeJsonResolves(i, b, "ok")
    \/ \E i \in DOMAIN analyzeCalls, now \in clock..MaxClock, d \in MetricDraws :
          AnalyzeDemoResolves(i, now, d, "ok")

\* window.soilAPI without a page
InitApi == InitCommon /\ NoPage /\ saveRun = NoRun

SpecApi == InitApi /\ [][NextApi]_vars


----------------------------------------------------------------------------
(* The session with the scheduling the runtime guarantees: a timer that was
   set fires and a body that arrived is read, while nothing makes the backend
   answer the health probe or a request. One call is in flight at a time and
   calls start while the clock can still advance, so every timer that is set
   can fire. *)

StagedFile == CHOOSE f \in Files : handlePhotoUpload(f) = "staged"

LiveStart ==
    /\ clock < MaxClock
    /\ analyzeCalls = <<>>
    /\ videoCalls = <<>>

\* the backend answers the health probe or the request
LiveBackendAnswers ==
    \/ \E i \in DOMAIN analyzeCalls, h \in FetchOutcomes : AnalyzeHealthResolves(i, h)
    \/ \E i \in DOMAIN analyzeCalls, r \in FetchOutcomes : AnalyzeFetchResolves(i, r)
    \/ \E i \in DOMAIN videoCalls, h \in FetchOutcomes : VideoHealthResolves(i, h)
    \/ \E i \in DOMAIN videoCalls, r \in FetchOutcomes : VideoFetchResolves(i, r)
    \/ \E h \in FetchOutcomes : CheckAPIStatusResolves(h, "ok")

\* await response.json() settles
LiveBodyRead ==
    \/ \E i \in DOMAIN analyzeCalls, b \in AnalyzeBodies : AnalyzeJsonResolves(i, b, "ok")
    \/ \E i \in DOMAIN videoCalls, b \in VideoBodies : VideoJsonResolves(i, b, "ok")

\* a setTimeout callback of getDemoAnalysis or getDemoVideo runs
LiveTimerFires ==
    \/ \E i \in DOMAIN analyzeCalls, now \in clock..MaxClock, d \in SharedDraws :
          AnalyzeDemoResolves(i, now, d, "ok")
    \/ \E i \in DOMAIN videoCalls, now \in clock..MaxClock :
          VideoDemoResolves(i, now, "ok")

NextLive ==
    \/ AppHandlePhotoUpload(StagedFile)
    \/ LiveStart /\ AppAnalyzeSoil(Null)
    \/ LiveStart /\ AppGenerateVideo
    \/ LiveBackendAnswers
    \/ LiveBodyRead
    \/ LiveTimerFires

SpecLive ==
    /\ Init
    /\ [][NextLive]_vars
    /\ WF_vars(LiveBodyRead)
    /\ WF_vars(LiveTimerFires)

----------------------------------------------------------------------------
(* Properties of the store *)

\* what getAnalyses() returns when the storage is available
Stored == getAnalyses(lsAnalyses, "ok")
StoredNext == getAnalyses(lsAnalyses', "ok")

RECURSIVE IsSubSeq(_, _)
\* s is t with some elements left out, the others in the same order
IsSubSeq(s, t) ==
    IF s = <<>> THEN TRUE
    ELSE IF t = <<>> THEN FALSE
    ELSE IF Head(s) = Head(t) THEN IsSubSeq(Tail(s), Tail(t))
    ELSE IsSubSeq(s, Tail(t))

\* C1: after more than maxStorageSize successful saves on an empty store,
\* getAnalyses() is exactly the maxStorageSize most recently saved records,
\* most recent first (and before that, all the saved records)
C1_MostRecentKept ==
    saveRun.on =>
        Stored = IF Len(saveRun.log) > maxStorageSize
                 THEN SubSeq(saveRun.log, 1, maxStorageSize)
                 ELSE saveRun.log

C1_Witness ==
    /\ saveRun.on
    /\ Len(saveRun.log) = maxStorageSize + 2
    /\ Len(Stored) = maxStorageSize
    /\ saveRun.log[maxStorageSize + 1] # saveRun.log[1]

\* C2 (as claimed): the persisted collection never holds more than
\* maxStorageSize records
C2_AtMostCapacity == Len(Stored) <= maxStorageSize

\* C3 (as claimed): no two records of the persisted collection have the same id
C3_UniqueIds ==
    \A i, j \in 1..Len(Stored) :
        (i # j /\ "id" \in DOMAIN Stored[i] /\ "id" \in DOMAIN Stored[j])
            => Stored[i].id # Stored[j].id

\* C4: a successful updateAnalysis(id, updates) changes one record with that
\* id and, of it, only the keys of updates; the other keys of that record,
\* the other records and the order stay as they were
C4_UpdateFrame ==
    [][(lastOp'.op = "update" /\ lastOp'.ok) =>
          /\ Len(StoredNext) = Len(Stored)
          /\ \E i \in 1..Len(Stored) :
                /\ Stored[i].id = lastOp'.id
                /\ \A j \in 1..Len(Stored) : j # i => StoredNext[j] = Stored[j]
                /\ \A k \in ((DOMAIN Stored[i]) \cup (DOMAIN StoredNext[i]))
                              \ (DOMAIN lastOp'.upd) :
                      /\ k \in DOMAIN Stored[i]
                      /\ k \in DOMAIN StoredNext[i]
                      /\ StoredNext[i][k] = Stored[i][k]
                /\ \A k \in DOMAIN JsonRecord(lastOp'.upd) :
                      /\ k \in DOMAIN StoredNext[i]
                      /\ StoredNext[i][k] = lastOp'.upd[k]
      ]_vars

C4_Witness ==
    /\ lastOp.op = "update" /\ lastOp.ok
    /\ lastOp.upd = [story |-> "new"]
    /\ Len(Stored) >= 3
    /\ Stored[2].id = lastOp.id /\ Stored[2].story = "new"
    /\ Stored[1].id # lastOp.id
    /\ "timestamp" \in DOMAIN Stored[2]

\* C5: a successful saveAnalysis puts the new record at the head, in front of
\* the records already stored in their old order (the tail cut off at the
\* capacity); updateAnalysis keeps every position; deleteAnalysis leaves the
\* remaining records in their old order; a call that throws changes nothing
C5_OrderKept ==
    [][/\ (lastOp'.op = "save" /\ lastOp'.ok) =>
             /\ StoredNext # <<>>
             /\ Head(StoredNext) = lastOp'.rec
             /\ Len(StoredNext) <= Len(Stored) + 1
             /\ Tail(StoredNext) = SubSeq(Stored, 1, Len(StoredNext) - 1)
       /\ (lastOp'.op = "update" /\ lastOp'.ok) =>
             /\ Len(StoredNext) = Len(Stored)
             /\ Cardinality({j \in 1..Len(Stored) : StoredNext[j] # Stored[j]}) <= 1
       /\ (lastOp'.op = "delete" /\ lastOp'.ok) =>
             /\ IsSubSeq(StoredNext, Stored)
             /\ \A j \in 1..Len(Stored) :
                   Stored[j].id # lastOp'.id =>
                       \E m \in 1..Len(StoredNext) : StoredNext[m] = Stored[j]
       /\ (lastOp'.op \in {"save", "update", "delete"} /\ ~lastOp'.ok) =>
             StoredNext = Stored
      ]_vars

C5_Witness ==
    /\ lastOp.op = "save" /\ lastOp.ok
    /\ Len(Stored) = maxStorageSize
    /\ Head(Stored) = lastOp.rec
    /\ \E j \in 2..Len(Stored) : Stored[j] # Head(Stored)

----------------------------------------------------------------------------
(* Properties of SoilAPI and of the session *)

AnalysisFailedAlert == "Analysis failed. Please try again."
VideoFailedAlert == "Video generation failed. Please try again."

\* C6: when the health probe of an analyzeSoil call resolved false, the call
\* resolves with success, a record marked isDemo, and the five soil metrics
\* within their ranges (tenths): pH 5.5..8.0, OM 1.0..5.0, P 10..50,
\* EC 0.5..2.5, moisture 15..35
C6_DemoWithinRanges ==
    (lastAnalyze # Null /\ lastAnalyze[1].call.probe = "false") =>
        LET res == lastAnalyze[1].result
            m == res.data.analysis
        IN  /\ res.success
            /\ "isDemo" \in DOMAIN res.data /\ res.data.isDemo
            /\ 55 <= m.pH /\ m.pH <= 80
            /\ 10 <= m.OM /\ m.OM <= 50
            /\ 100 <= m.P /\ m.P <= 500
            /\ 5 <= m.EC /\ m.EC <= 25
            /\ 150 <= m.moisture /\ m.moisture <= 350

C6_Witness ==
    /\ lastAnalyze # Null
    /\ lastAnalyze[1].call.probe = "false"
    /\ lastAnalyze[1].result.data.analysis.pH = 80
    /\ lastAnalyze[1].result.data.analysis.P = 100
    /\ lastAnalyze[1].result.data.analysis.moisture = 350

\* C7: every analyzeSoil call resolves with success, and when the backend
\* failed (probe false or failing, network error, status not ok, body that
\* does not parse) the session shows no failed analysis: it holds the
\* synthesized record and releases the guard
C7_NoRemoteFailureSurfaced ==
    lastAnalyze # Null =>
        /\ lastAnalyze[1].result.success
        /\ (lastAnalyze[1].call.probe = "false"
              \/ lastAnalyze[1].call.remote = "failed") =>
              /\ alert # AnalysisFailedAlert
              /\ currentAnalysis = Some(lastAnalyze[1].result.data)
              /\ ~isAnalyzing

C7_Witness ==
    /\ lastAnalyze # Null
    /\ lastAnalyze[1].call.probe = "true"
    /\ lastAnalyze[1].call.remote = "failed"
    /\ lastAnalyze[1].result.success
    /\ currentAnalysis = Some(lastAnalyze[1].result.data)
    /\ alert = ""

\* the analyzeSoil calls in flight and the one the last step resolved
AnalyzeCallsSeen ==
    {analyzeCalls[i] : i \in DOMAIN analyzeCalls}
        \cup (IF lastAnalyze = Null THEN {} ELSE {lastAnalyze[1].call})

\* C8: the analyze endpoint is requested only after the probe of the same
\* call returned true; the synthesizer is invoked exactly when the probe
\* returned false or the remote analyze failed; when the probe is true and
\* the remote call succeeds, the remote record is the result, unmarked
C8_DecisionRule ==
    /\ \A c \in AnalyzeCallsSeen :
          /\ c.requested => c.probe = "true"
          /\ c.remote # "none" => c.requested
          /\ c.synthesized <=> (c.probe = "false" \/ c.remote = "failed")
    /\ lastAnalyze # Null =>
          LET c == lastAnalyze[1].call
              data == lastAnalyze[1].result.data
          IN  /\ (c.probe = "true" /\ c.remote = "ok") =>
                    /\ data = c.received[1]
                    /\ "isDemo" \notin DOMAIN data
              /\ c.synthesized => ("isDemo" \in DOMAIN data /\ data.isDemo)
              /\ c.synthesized \/ (c.probe = "true" /\ c.remote = "ok")

C8_Witness ==
    /\ lastAnalyze # Null
    /\ lastAnalyze[1].call.probe = "true"
    /\ lastAnalyze[1].call.remote = "ok"
    /\ ~lastAnalyze[1].call.synthesized
    /\ "isDemo" \notin DOMAIN lastAnalyze[1].result.data

\* C9: at most one analyzeSoil call is in flight, isAnalyzing is set exactly
\* while it is, and analyzeSoil() invoked while isAnalyzing is set starts no
\* call, saves nothing and leaves the session as it was
C9_OneAnalyzeInFlight ==
    [][/\ Len(analyzeCalls') <= 1
       /\ isAnalyzing' <=> Len(analyzeCalls') = 1
       /\ (lastEvent' = "analyzeSoil" /\ isAnalyzing) =>
             UNCHANGED <<analyzeCalls, videoCalls, lsAnalyses, currentPhotoFile,
                         currentAnalysis, isAnalyzing, isGeneratingVideo>>
      ]_vars

C9_Witness ==
    /\ lastEvent = "analyzeSoil"
    /\ isAnalyzing
    /\ currentPhotoFile # Null
    /\ Len(analyzeCalls) = 1
    /\ analyzeCalls[1].pc = "fetch"

\* C10: at most one generateVideo call is in flight, isGeneratingVideo is set
\* exactly while it is, generateVideo() invoked while the flag is set is a
\* no-op, and the step that completes the request releases the flag whether
\* the handler went on normally or failed
C10_OneVideoInFlight ==
    [][/\ Len(videoCalls') <= 1
       /\ isGeneratingVideo' <=> Len(videoCalls') = 1
       /\ (lastEvent' = "generateVideo" /\ isGeneratingVideo) =>
             UNCHANGED <<analyzeCalls, videoCalls, lsAnalyses, currentPhotoFile,
                         currentAnalysis, isAnalyzing, isGeneratingVideo>>
       /\ lastVideo' # Null => ~isGeneratingVideo'
      ]_vars

C10_Witness ==
    /\ lastVideo # Null
    /\ alert = VideoFailedAlert
    /\ ~isGeneratingVideo
    /\ videoCalls = <<>>
    /\ started.video = 2

\* C11: when a generateVideo call resolves and its result is handed to
\* updateAnalysis, the id given to updateAnalysis is the id the video was
\* requested for, also when an analyze resolved in between
C11_VideoAttachedToRequested ==
    (lastVideo # Null /\ lastOp.op = "update") =>
        lastOp.id = lastVideo[1].call.analysisId

\* C12: after an analyze that resolved and was persisted, the id of the
\* session's currentAnalysis is the id of the record at the head of the
\* persisted collection, also when the id was generated by the store
C12_ExposedIdIsPersistedId ==
    (lastAnalyze # Null /\ lastOp.op = "save" /\ lastOp.ok) =>
        /\ currentAnalysis # Null
        /\ Stored # <<>>
        /\ "id" \in DOMAIN currentAnalysis[1]
        /\ currentAnalysis[1].id = Head(Stored).id

\* C13: an analyze and a video generation that started eventually complete:
\* the session does not stay analyzing, or generating a video, forever
C13_EventuallyCompletes ==
    /\ isAnalyzing ~> ~isAnalyzing
    /\ isGeneratingVideo ~> ~isGeneratingVideo

\* C14: when saveAnalysis after an analyze, or updateAnalysis after a video
\* generation, throws (storage unavailable, quota exceeded, record not
\* found), the session shows the user an alert
C14_StorageFailureReported ==
    ((lastAnalyze # Null \/ lastVideo # Null)
        /\ lastOp.op \in {"save", "update"} /\ ~lastOp.ok) => alert # ""

\* C15: when the store throws in saveAnalysis after a successful analyze,
\* the session holds the result as currentAnalysis, the analyze guard is
\* released and the analysis is not reported as failed
C15_ResultKeptWhenSaveFails ==
    (lastAnalyze # Null /\ lastOp.op = "save" /\ ~lastOp.ok) =>
        /\ currentAnalysis = Some(lastAnalyze[1].result.data)
        /\ ~isAnalyzing
        /\ alert # AnalysisFailedAlert

C15_Witness ==
    /\ lastAnalyze # Null
    /\ lastOp.op = "save" /\ ~lastOp.ok /\ lastOp.env = "quota"
    /\ currentAnalysis = Some(lastAnalyze[1].result.data)
    /\ "analysis" \in DOMAIN currentAnalysis[1]
    /\ Stored = <<>>
    /\ ~isAnalyzing

\* C17: a saveAnalysis whose write the medium refuses (quota exceeded)
\* throws and leaves the persisted collection exactly as it was
C17_FailedSaveWritesNothing ==
    [][(lastOp'.op = "save" /\ lastOp'.env = "quota") =>
          /\ ~lastOp'.ok
          /\ lsAnalyses' = lsAnalyses
      ]_vars

C17_Witness ==
    /\ lastOp.op = "save" /\ lastOp.env = "quota" /\ ~lastOp.ok
    /\ Len(Stored) = maxStorageSize
    /\ saveRun.on /\ saveRun.log = Stored

\* C18: updateAnalysis(id, updates) for an id no stored record has throws
\* and leaves the persisted collection as it was
C18_UpdateOfMissingId ==
    [][(lastOp'.op = "update"
           /\ \A i \in 1..Len(Stored) :
                 "id" \in DOMAIN Stored[i] => Stored[i].id # lastOp'.id) =>
          /\ ~lastOp'.ok
          /\ lsAnalyses' = lsAnalyses
      ]_vars

C18_Witness ==
    /\ lastOp.op = "update" /\ lastOp.env = "ok" /\ ~lastOp.ok
    /\ Len(Stored) >= 2
    /\ \A i \in 1..Len(Stored) : Stored[i].id # lastOp.id

\* C19: after a successful deleteAnalysis(id), getAnalysis(id) finds
\* nothing, and the records with another id are all still stored, in the
\* order they had
C19_DeletedIsGone ==
    [][(lastOp'.op = "delete" /\ lastOp'.ok) =>
          /\ getAnalysis(lsAnalyses', lastOp'.id, "ok") = Null
          /\ \A i \in 1..Len(StoredNext) : StoredNext[i].id # lastOp'.id
          /\ IsSubSeq(StoredNext, Stored)
          /\ Len(StoredNext) =
                Cardinality({i \in 1..Len(Stored) : Stored[i].id # lastOp'.id})
      ]_vars

C19_Witness ==
    /\ lastOp.op = "delete" /\ lastOp.ok /\ lastOp.removed = 1
    /\ Len(Stored) = 2
    /\ getAnalysis(lsAnalyses, lastOp.id, "ok") = Null

\* C20: a deleteAnalysis(id), with the storage working, for an id no stored
\* record has does not report success
C20_DeleteOfMissingIdFails ==
    [][(lastOp'.op = "delete" /\ lastOp'.env = "ok"
           /\ \A i \in 1..Len(Stored) :
                 "id" \in DOMAIN Stored[i] => Stored[i].id # lastOp'.id)
          => ~lastOp'.ok
      ]_vars

\* C16: with the storage unavailable, saveAnalysis, updateAnalysis,
\* deleteAnalysis and clearAnalyses throw, and getAnalyses, getAnalysis,
\* searchAnalyses and getAnalysesPaginated return: an empty list, nothing
\* found, an empty list, an empty page of a collection of none
C16_UnavailableStorage ==
    lastOp.env = "unavailable" =>
        /\ lastOp.op \in {"save", "update", "delete", "clear"} => ~lastOp.ok
        /\ lastOp.op = "getAnalyses" => (lastOp.ok /\ lastOp.out = <<>>)
        /\ lastOp.op = "getAnalysis" => (lastOp.ok /\ lastOp.out = Null)
        /\ lastOp.op = "searchAnalyses" => (lastOp.ok /\ lastOp.out = <<>>)
        /\ lastOp.op = "getAnalysesPaginated" =>
              /\ lastOp.ok
              /\ lastOp.out.data = <<>>
              /\ lastOp.out.total = 0
              /\ lastOp.out.totalPages = 0

C16_Witness ==
    /\ lastOp.op = "getAnalysis" /\ lastOp.env = "unavailable"
    /\ lastOp.out = Null
    /\ Len(Stored) >= 2
    /\ Stored[2].id = lastOp.id

----------------------------------------------------------------------------
(* Properties of the read methods *)

\* C21: getAnalysesPaginated(page, pageSize) reports the number of records
\* as total and ceil(total / pageSize) as totalPages, and for a page outside
\* 1..totalPages its data is empty
C21_OutOfRangePageIsEmpty ==
    lastOp.op = "getAnalysesPaginated" =>
        LET o == lastOp.out
            n == Len(getAnalyses(lsAnalyses, lastOp.env))
        IN  /\ o.total = n
            /\ o.totalPages * o.pageSize >= n
            /\ (o.totalPages - 1) * o.pageSize < n
            /\ o.page \notin 1..o.totalPages => o.data = <<>>

\* C22: searchAnalyses with an empty query, or one of white space only,
\* returns the whole collection in its order
C22_BlankQueryReturnsAll ==
    (lastOp.op = "searchAnalyses" /\ lastOp.query \in {"", "  "}) =>
        lastOp.out = getAnalyses(lsAnalyses, lastOp.env)

C22_Witness ==
    /\ lastOp.op = "searchAnalyses" /\ lastOp.query = "  " /\ lastOp.env = "ok"
    /\ Len(lastOp.out) = 3
    /\ lastOp.out = Stored
    /\ lastOp.out[1].story # lastOp.out[2].story

\* C23: searchAnalyses with a query that is not blank returns, in the order
\* of the collection, the records whose story, timestamp string or location
\* coordinates contain the trimmed query, letter case ignored; the records
\* expected for each query of the model are written out here
C23_SearchFindsExactly ==
    /\ (lastOp.op = "searchAnalyses" /\ lastOp.env = "ok"
            /\ lastOp.query \notin {"", "  "}) =>
          LET q == lastOp.query
              Expected(a) ==
                  \/ q \in {"S1", "s1"} /\ "story" \in DOMAIN a /\ a.story = "s1"
                  \/ q = " new " /\ "story" \in DOMAIN a /\ a.story = "new"
                  \/ q = "T00" /\ "timestamp" \in DOMAIN a
                  \/ q = "77" /\ "location" \in DOMAIN a
          IN  lastOp.out = SelectSeq(Stored, Expected)
    /\ searchAnalyses(lsAnalyses, "S1", "ok") = searchAnalyses(lsAnalyses, "s1", "ok")

C23_Witness ==
    /\ lastOp.op = "searchAnalyses" /\ lastOp.env = "ok" /\ lastOp.query = "77"
    /\ Len(Stored) = 3
    /\ Len(lastOp.out) = 1
    /\ lastOp.out[1] = Stored[2]

----------------------------------------------------------------------------
(* Properties of the fallbacks and guards of the session *)

\* C26: every result SoilAPI.generateVideo resolves with is successful, and
\* when the health probe was false or the remote request failed it is the
\* placeholder: videoPath and videoUrl '/static/demo-video.mp4', isDemo true
C26_VideoAlwaysSucceeds ==
    lastVideo # Null =>
        LET c == lastVideo[1].call
            r == lastVideo[1].result
        IN  /\ r.success
            /\ (c.probe = "false" \/ c.remote = "failed") =>
                  /\ DOMAIN r.data = {"videoPath", "videoUrl", "isDemo"}
                  /\ r.data.videoPath = "/static/demo-video.mp4"
                  /\ r.data.videoUrl = "/static/demo-video.mp4"
                  /\ r.data.isDemo = TRUE

C26_Witness ==
    /\ lastVideo # Null
    /\ lastVideo[1].call.probe = "true"
    /\ lastVideo[1].call.requested
    /\ lastVideo[1].call.remote = "failed"
    /\ lastVideo[1].result.success
    /\ "isDemo" \in DOMAIN lastVideo[1].result.data

\* C27: analyzeSoil() of the session with no staged file shows the notice
\* 'Please select a photo first.' and does nothing else: no call of the API
\* starts, nothing is saved, and isAnalyzing and currentAnalysis keep their
\* values
C27_NoFileIsRejected ==
    [][(lastEvent' = "analyzeSoil" /\ currentPhotoFile = Null) =>
          /\ alert' = "Please select a photo first."
          /\ lastOp' = NoOp
          /\ UNCHANGED <<analyzeCalls, videoCalls, lsAnalyses, genCount,
                         currentPhotoFile, currentAnalysis, isAnalyzing,
                         isGeneratingVideo>>
      ]_vars

C27_Witness ==
    /\ lastEvent = "analyzeSoil"
    /\ currentPhotoFile = Null
    /\ alert = "Please select a photo first."
    /\ currentAnalysis # Null
    /\ analyzeCalls = <<>>

\* C28: a step that updates a record leaves every video field that was set
\* on a stored record set: videoPath and videoUrl, once present, are present
\* after every later updateAnalysis, a later video generation included
C28_VideoFieldsStaySet ==
    [][lastOp'.op = "update" =>
          /\ Len(StoredNext) = Len(Stored)
          /\ \A i \in 1..Len(Stored) :
                \A k \in {"videoPath", "videoUrl"} :
                    k \in DOMAIN Stored[i] => k \in DOMAIN StoredNext[i]
      ]_vars

----------------------------------------------------------------------------
(* The history page *)

\* JSON values of the history endpoint: null, or an object whose items are
\* absent, an array, or a non-empty string
JsonNull == [null |-> TRUE]
NoItems == [kind |-> "absent", val |-> <<>>]
ArrayItems(list) == [kind |-> "array", val |-> list]
StringItems == [kind |-> "string", val |-> <<>>]
HistoryObject(items) == [null |-> FALSE, items |-> items]

RemoteHistory ==
    << [id |-> <<"server", 1>>, timestamp |-> 1, story |-> "remote story"] >>

\* what await response.json() gives for the history endpoint; Null when the
\* body does not parse
HistoryBodies ==
    { Null, Some(JsonNull), Some(HistoryObject(NoItems)),
      Some(HistoryObject(ArrayItems(<<>>))),
      Some(HistoryObject(ArrayItems(RemoteHistory))),
      Some(HistoryObject(StringItems)) }

\* how many loadHistory calls the model lets be in flight
MaxHistoryCalls == 2

\* loadHistory() up to await fetch(health) in checkHealth
NewHistoryCall == [pc |-> "health"]

\* what getHistory returns when the probe is false
DemoHistory == [success |-> TRUE, data |-> HistoryObject(ArrayItems(<<>>))]

\* what makeRequest returns from its catch block: fetch rejected, the status
\* is not 2xx, or the body cannot be read
RequestFailed == [success |-> FALSE, data |-> JsonNull]

\* what makeRequest returns when await response.json() gave body
RequestDone(body) ==
    IF body = Null THEN RequestFailed
    ELSE [success |-> TRUE, data |-> body[1]]

\* a catch block that lets the error go on to the caller
loadHistoryRethrow(view) == [view EXCEPT !.outcome = "error"]

\* the catch block of loadHistory
loadHistoryCatch(view) ==
    [view EXCEPT !.emptyHistory = TRUE, !.outcome = "empty"]

\* apiResult.success && apiResult.data.items is truthy; reading items of
\* null throws
ItemsThrows(apiResult) == apiResult.success /\ apiResult.data.null
UsesApiItems(apiResult) ==
    /\ apiResult.success
    /\ ~apiResult.data.null
    /\ apiResult.data.items.kind \in {"array", "string"}

\* loadHistory() after await window.soilAPI.getHistory(); item is the
\* payload window.soilStorage.getAnalyses() reads. Of a value that is not an
\* array length is undefined, not 0, and displayHistory throws
loadHistory(view, apiResult, item, env) ==
    IF ItemsThrows(apiResult) THEN loadHistoryCatch(view)
    ELSE LET analyses ==
                 IF UsesApiItems(apiResult) THEN apiResult.data.items
                 ELSE IF NotAnArray(item, env)
                 THEN [kind |-> "object", val |-> getAnalyses(item, env)]
                 ELSE ArrayItems(getAnalyses(item, env))
         IN  IF analyses.kind = "array" /\ Len(analyses.val) = 0
             THEN [view EXCEPT !.emptyHistory = TRUE, !.outcome = "empty"]
             ELSE IF analyses.kind = "array"
             THEN [view EXCEPT !.historyGrid = analyses.val,
                               !.outcome = "records"]
             \* displayHistory: analyses.map is not a function
             ELSE loadHistoryCatch(view)

\* what a step of the page that is not the end of a loadHistory leaves
PageStep ==
    /\ NothingResolves
    /\ UNCHANGED <<lsSettings, tabs, clock, genCount, currentPhotoFile,
                   currentAnalysis, isAnalyzing, isGeneratingVideo,
                   analyzeCalls, videoCalls, started>>

\* loadHistory() up to its first await: getHistory() has called checkHealth()
AppLoadHistory ==
    /\ Len(historyCalls) < MaxHistoryCalls
    /\ historyCalls' = Append(historyCalls, NewHistoryCall)
    /\ lastEvent' = "loadHistory"
    /\ alert' = ""
    /\ lastOp' = NoOp
    /\ PageStep
    /\ UNCHANGED <<lsAnalyses, saveRun, historyView, statusCheck, locationCalls>>

\* a loadHistory call goes on to its next await
HistoryAwaits(i, pc, event) ==
    /\ historyCalls' = [historyCalls EXCEPT ![i] = [pc |-> pc]]
    /\ lastEvent' = event
    /\ alert' = ""
    /\ lastOp' = NoOp
    /\ PageStep
    /\ UNCHANGED <<lsAnalyses, saveRun, historyView, statusCheck, locationCalls>>

\* loadHistory() after await window.soilAPI.getHistory(): the store is read
\* now, in the turn that writes the page
AppLoadHistoryDone(i, apiResult, probe, env) ==
    LET local == getAnalyses(lsAnalyses, env)
        fallback == ~ItemsThrows(apiResult) /\ ~UsesApiItems(apiResult)
    IN  /\ historyCalls' = RemoveAt(historyCalls, i)
        /\ historyView' = [loadHistory(historyView, apiResult, lsAnalyses, env)
                              EXCEPT !.api = Some(apiResult),
                                     !.probe = probe]
        /\ lastOp' = IF fallback
                      THEN ReadOp("getAnalyses", EmptyString, env, local)
                      ELSE NoOp
        /\ lastEvent' = "loadHistory done"
        /\ alert' = ""
        /\ PageStep
        /\ UNCHANGED <<lsAnalyses, saveRun, statusCheck, locationCalls>>

\* await fetch(health) of a loadHistory call settles: with the probe false
\* getHistory returns at once and loadHistory runs to its end
HistoryHealthResolves(i, h, env) ==
    /\ historyCalls[i].pc = "health"
    /\ IF checkHealth(h)
       THEN HistoryAwaits(i, "fetch", "loadHistory health")
       ELSE AppLoadHistoryDone(i, DemoHistory, FALSE, env)

\* await fetch(history) in makeRequest settles
HistoryFetchResolves(i, r, env) ==
    /\ historyCalls[i].pc = "fetch"
    /\ IF r = "ok"
       THEN HistoryAwaits(i, "json", "loadHistory response")
       ELSE AppLoadHistoryDone(i, RequestFailed, TRUE, env)

\* await response.json() in makeRequest settles; when the body does not
\* parse, response.text() rejects (the body is used up)
HistoryJsonResolves(i, body, env) ==
    /\ historyCalls[i].pc = "json"
    /\ AppLoadHistoryDone(i, RequestDone(body), TRUE, env)

\* handleSearch(query): displayHistory writes #historyGrid and leaves
\* #emptyHistory; over a payload that is not an array analyses.filter or
\* analyses.map is not a function and the handler throws
AppHandleSearch(query, env) ==
    /\ historyView' =
          IF NotAnArray(lsAnalyses, env) THEN historyView
          ELSE [historyView EXCEPT
                   !.historyGrid = searchAnalyses(lsAnalyses, query, env)]
    /\ lastOp' = SearchOp(query, env)
    /\ lastEvent' = "handleSearch"
    /\ alert' = ""
    /\ PageStep
    /\ UNCHANGED <<lsAnalyses, saveRun, pageVars>>

\* clearHistory(): confirmed is what confirm() returned; loadHistory() is
\* started and not awaited, so the alert is shown in the same turn
AppClearHistory(confirmed, env) ==
    LET r == clearAnalyses(lsAnalyses, env)
        cleared == confirmed /\ ~r.threw
    IN  /\ cleared => Len(historyCalls) < MaxHistoryCalls
        /\ lsAnalyses' = IF cleared THEN r.item ELSE lsAnalyses
        /\ saveRun' = IF cleared THEN NewRun ELSE saveRun
        /\ lastOp' = IF confirmed
                      THEN [op |-> "clear", id |-> EmptyString,
                            upd |-> EmptyObject, rec |-> EmptyObject,
                            ok |-> ~r.threw, env |-> env]
                      ELSE NoOp
        /\ historyCalls' = IF cleared THEN Append(historyCalls, NewHistoryCall)
                           ELSE historyCalls
        /\ alert' = IF ~confirmed THEN ""
                    ELSE IF r.threw THEN "Failed to clear history."
                    ELSE "History cleared successfully."
        /\ lastEvent' = "clearHistory"
        /\ PageStep
        /\ UNCHANGED <<historyView, statusCheck, locationCalls>>

\* the constructor on the history page: loadInitialData() has started
\* loadHistory() and checkAPIStatus() awaits getAPIStatus()
HistoryPage ==
    /\ statusCheck = "pending"
    /\ locationCalls = 0
    /\ historyCalls = <<NewHistoryCall>>

InitHistory == InitCommon /\ HistoryPage /\ saveRun = NewRun

\* what is typed into #searchInput
SearchQueries == {"", "s1", "77", "zz"}

\* localStorage.setItem('soilstory_analyses', text) from outside SoilStorage
PayloadWritten(p) ==
    /\ lsAnalyses' = p
    /\ lastOp' = NoOp
    /\ saveRun' = NoRun
    /\ lastEvent' = "localStorage.setItem"
    /\ UNCHANGED <<lsSettings, tabs, clock, genCount>> /\ StoreStep

\* the ids of the stored records
StoredIds ==
    IF NotAnArray(lsAnalyses, "ok") THEN {}
    ELSE { IdOf(getAnalyses(lsAnalyses, "ok")[i]) :
             i \in DOMAIN getAnalyses(lsAnalyses, "ok") }

\* the history page, with clears and saves of new records made through
\* window.soilStorage, and a payload another script wrote under the key
NextHistory ==
    \/ \E a \in ReadSaveInputs :
          IdOf(a) \notin StoredIds /\ StoreSave(a, "ok", clock)
    \/ StoreClear("ok")
    \/ PayloadWritten(ObjectItem)
    \/ AppLoadHistory
    \/ \E i \in DOMAIN historyCalls, h \in FetchOutcomes, env \in ReadEnvs :
          HistoryHealthResolves(i, h, env)
    \/ \E i \in DOMAIN historyCalls, r \in FetchOutcomes, env \in ReadEnvs :
          HistoryFetchResolves(i, r, env)
    \/ \E i \in DOMAIN historyCalls, b \in HistoryBodies, env \in ReadEnvs :
          HistoryJsonResolves(i, b, env)
    \/ \E q \in SearchQueries, env \in ReadEnvs : AppHandleSearch(q, env)
    \/ \E confirmed \in BOOLEAN, env \in ReadEnvs : AppClearHistory(confirmed, env)
    \/ \E id \in ExportIds, env \in ReadEnvs : AppExportAnalysis(id, env)
    \/ \E h \in FetchOutcomes, env \in ReadEnvs : CheckAPIStatusResolves(h, env)

SpecHistory == InitHistory /\ [][NextHistory]_vars

\* C30: loadHistory never ends in an error: whatever the health probe, the
\* request and the body were, the getHistory result is an object with a
\* success flag, no alert is shown, and the page either shows the records
\* it loaded in the grid or shows the empty-history element
C30_HistoryNeverFails ==
    lastEvent = "loadHistory done" =>
        /\ historyView.api # Null
        /\ historyView.api[1].success \in BOOLEAN
        /\ alert = ""
        /\ \/ historyView.outcome = "records" /\ historyView.historyGrid # <<>>
           \/ historyView.outcome = "empty" /\ historyView.emptyHistory

C30_Witness ==
    /\ lastEvent = "loadHistory done"
    /\ historyView.api[1].success
    /\ historyView.api[1].data.null
    /\ historyView.outcome = "empty"
    /\ historyView.emptyHistory
    /\ Len(Stored) = 2

----------------------------------------------------------------------------
(* The medium: the two keys of localStorage and the bytes they take *)

analysesKey == "soilstory_analyses"
settingsKey == "soilstory_settings"

\* the string an id of the model stands for
\* Date.now() at instant t in decimal: instant 1 is 2025-01-01T00:00:00.000Z,
\* 1735689600000 ms, and an instant lasts a day, 86400000 ms
DateNowString(t) == ToString(17356032 + 864 * t) \o "00000"

\* Math.random().toString(36).substr(2, 9) for Math.random() = rnd / 36
Base36Suffix(rnd) ==
    IF rnd = 0 THEN ""
    ELSE SubSeq("0123456789abcdefghijklmnopqrstuvwxyz", rnd + 1, rnd + 1)

IdString(id) ==
    CASE id[1] = "analysis" ->
            "analysis_" \o DateNowString(id[2]) \o "_" \o Base36Suffix(id[3])
      [] id[1] = "demo" -> "demo_" \o DateNowString(id[2])
      [] OTHER -> id[1] \o "-" \o ToString(id[2])

\* JSON.stringify(v).length for the value of key k: ids, timestamps and the
\* string-valued keys are quoted strings with nothing to escape, a location
\* is null or {"lat":..,"lon":..}
JsonValueLength(k, v) ==
    CASE k = "id" -> Len(IdString(v)) + 2
      [] k = "timestamp" -> Len(IsoString(v)) + 2
      [] k = "location" ->
            IF v = Null THEN 4
            ELSE 15 + Len(ToString(v[1].lat)) + Len(ToString(v[1].lon))
      [] OTHER -> Len(v) + 2

RECURSIVE JsonMembersLength(_, _)
\* the length of the members "k":v of o for the keys in ks, commas included
JsonMembersLength(o, ks) ==
    IF ks = {} THEN 0
    ELSE LET k == CHOOSE j \in ks : TRUE
             rest == ks \ {k}
         IN  Len(k) + 3 + JsonValueLength(k, o[k])
               + (IF rest = {} THEN 0 ELSE 1 + JsonMembersLength(o, rest))

\* JSON.stringify(o).length of an object
JsonObjectLength(o) == 2 + JsonMembersLength(o, DOMAIN o)

RECURSIVE JsonElementsLength(_)
JsonElementsLength(list) ==
    IF list = <<>> THEN 0
    ELSE JsonObjectLength(Head(list))
           + (IF Tail(list) = <<>> THEN 0 ELSE 1 + JsonElementsLength(Tail(list)))

\* JSON.stringify(list).length of an array of records
JsonArrayLength(list) == 2 + JsonElementsLength(list)

\* 5 * 1024 * 1024
StorageLimit == 5 * 1024 * 1024

\* getStorageInfo(): localStorage[key].length + key.length over the keys of
\* the store; percentage is the fraction num / den
getStorageInfo(analysesItem, settingsItem, env) ==
    IF ~isStorageAvailable(env)
    THEN [available |-> FALSE, usage |-> 0, limit |-> 0]
    ELSE LET totalSize ==
                (IF analysesItem.present
                 THEN JsonArrayLength(analysesItem.val) + Len(analysesKey) ELSE 0)
              + (IF settingsItem.present
                 THEN JsonObjectLength(settingsItem.val) + Len(settingsKey) ELSE 0)
         IN  [available |-> TRUE, usage |-> totalSize, limit |-> StorageLimit,
              percentage |-> [num |-> totalSize * 100, den |-> StorageLimit]]

\* saveSettings(settings)
saveSettings(item, settings, env) ==
    IF env # "ok" THEN [threw |-> TRUE, item |-> item]
    ELSE [threw |-> FALSE, item |-> Item(settings)]

SettingsInputs == {[theme |-> "dark"], [theme |-> "light", language |-> "en"]}

\* updates that name the identity fields of a record
IdentityUpdates == {[id |-> <<"user", 2>>], [timestamp |-> 2]}

StoreSaveSettings(settings, env) ==
    LET r == saveSettings(lsSettings, settings, env)
    IN  /\ lsSettings' = r.item
        /\ UNCHANGED tabs
        /\ lastOp' = [op |-> "saveSettings", id |-> EmptyString,
                      upd |-> EmptyObject, rec |-> EmptyObject,
                      ok |-> ~r.threw, env |-> env]
        /\ lastEvent' = "storage.saveSettings"
        /\ UNCHANGED <<lsAnalyses, clock, genCount, saveRun>> /\ StoreStep

StoreGetStorageInfo(env) ==
    StoreRead(ReadOp("getStorageInfo", EmptyString, env,
                     getStorageInfo(lsAnalyses, lsSettings, env)))

NextMedium ==
    \/ \E a \in ReadSaveInputs, env \in StorageEnvs : StoreSave(a, env, clock)
    \/ \E id \in UserIds, u \in IdentityUpdates, env \in StorageEnvs :
          StoreUpdate(id, u, env)
    \/ \E id \in UserIds : StoreDelete(id, "ok")
    \/ \E env \in StorageEnvs : StoreClear(env)
    \/ \E st \in SettingsInputs, env \in StorageEnvs : StoreSaveSettings(st, env)
    \/ \E env \in ReadEnvs : StoreGetStorageInfo(env)

SpecMedium == InitStore /\ [][NextMedium]_vars

\* the bytes getStorageInfo() reports with the storage working
Usage == getStorageInfo(lsAnalyses, lsSettings, "ok").usage
UsageNext == getStorageInfo(lsAnalyses', lsSettings', "ok").usage

\* C25 as stated: after a clearAnalyses() that returned, getAnalyses() is
\* empty, the usage is lower than it was before the call and the persisted
\* settings are as they were
C25_ClearLowersUsage ==
    [][(lastOp'.op = "clear" /\ lastOp'.ok) =>
          /\ StoredNext = <<>>
          /\ UsageNext < Usage
          /\ lsSettings' = lsSettings
      ]_vars

\* C25, amended: after a clearAnalyses() that returned, getAnalyses() is
\* empty, the persisted settings are as they were, and the usage is lower
\* than before exactly when the analyses key was present before the call
\* (by the length of the key and of its value); it is the same otherwise
C25_ClearLowersUsageWhenStored ==
    [][(lastOp'.op = "clear" /\ lastOp'.ok) =>
          /\ StoredNext = <<>>
          /\ lsSettings' = lsSettings
          /\ lsAnalyses.present =>
                UsageNext = Usage - Len(analysesKey) - JsonArrayLength(Stored)
          /\ ~lsAnalyses.present => UsageNext = Usage
          /\ UsageNext < Usage <=> lsAnalyses.present
      ]_vars

C25_Witness ==
    /\ lastOp.op = "clear"
    /\ lastOp.ok
    /\ saveRun = NewRun
    /\ lsSettings.present
    /\ ~lsAnalyses.present
    /\ Usage = JsonObjectLength(lsSettings.val) + Len(settingsKey)
    /\ Usage > 0

\* C29: updateAnalysis leaves the id and the timestamp of every stored
\* record as they were, whatever the updates are
C29_IdentityIsStable ==
    [][lastOp'.op = "update" =>
          /\ Len(StoredNext) = Len(Stored)
          /\ \A i \in 1..Len(Stored) :
                /\ StoredNext[i].id = Stored[i].id
                /\ StoredNext[i].timestamp = Stored[i].timestamp
      ]_vars

----------------------------------------------------------------------------
(* The reads over a payload the store did not write *)

\* what another script of the origin can leave under the analyses key
Payloads ==
    { UnparseableItem, ObjectItem, Item(<<>>), Item(<<LocatedRecord>>),
      Item(<<ImportRecord(1), LocatedRecord>>) }

NextPayload ==
    \/ \E p \in Payloads : PayloadWritten(p)
    \/ StoreClear("ok")
    \/ \E env \in ReadEnvs : StoreGetAnalyses(env)
    \/ \E id \in ReadIds, env \in ReadEnvs : StoreGetAnalysis(id, env)
    \/ \E q \in Queries, env \in ReadEnvs : StoreSearchAnalyses(q, env)
    \/ \E page \in Pages, size \in PageSizes, env \in ReadEnvs :
          StoreGetAnalysesPaginated(page, size, env)

SpecPayload == InitStore /\ [][NextPayload]_vars

\* C24: when the payload under the analyses key is not the text of an
\* array, getAnalyses returns the empty sequence, getAnalysis returns not
\* found, searchAnalyses returns the empty sequence and getAnalysesPaginated
\* returns an empty page, and none of them throws
C24_CorruptPayloadReadsEmpty ==
    (IsCorrupt(lsAnalyses) /\ lastOp.op # "none") =>
        /\ lastOp.ok
        /\ lastOp.op = "getAnalyses" => lastOp.out = <<>>
        /\ lastOp.op = "getAnalysis" => lastOp.out = Null
        /\ lastOp.op = "searchAnalyses" => lastOp.out = <<>>
        /\ lastOp.op = "getAnalysesPaginated" => lastOp.out.data = <<>>

----------------------------------------------------------------------------
(* The settings *)

\* getDefaultSettings()
getDefaultSettings ==
    [useLocation |-> TRUE, autoSave |-> TRUE, theme |-> "light",
     language |-> "en", notifications |-> TRUE]

\* payloads under the settings key that are not the text of a plain object:
\* text JSON.parse rejects, the text null, and the text of an array
UnparseableSettings == [present |-> TRUE, val |-> <<>>, kind |-> "unparseable"]
NullSettings == [present |-> TRUE, val |-> <<>>, kind |-> "null"]
ArraySettings(list) == [present |-> TRUE, val |-> list, kind |-> "array"]

\* the own enumerable properties of an array: its indices "0", "1", ...
ArrayAsObject(list) ==
    LET IndexOf(k) == CHOOSE i \in 1..Len(list) : ToString(i - 1) = k
    IN  [k \in {ToString(i - 1) : i \in 1..Len(list)} |-> list[IndexOf(k)]]

\* getSettings(): { ...getDefaultSettings(), ...saved }, saved being
\* data ? JSON.parse(data) : {}; the defaults when the parse throws
getSettings(item, env) ==
    IF ~isStorageAvailable(env) THEN getDefaultSettings
    ELSE IF ~item.present THEN Spread(getDefaultSettings, EmptyObject)
    ELSE IF IsCorrupt(item) /\ item.kind = "unparseable" THEN getDefaultSettings
    ELSE IF IsCorrupt(item) /\ item.kind = "null"
    THEN Spread(getDefaultSettings, EmptyObject)
    ELSE IF IsCorrupt(item) /\ item.kind = "array"
    THEN Spread(getDefaultSettings, ArrayAsObject(item.val))
    ELSE Spread(getDefaultSettings, item.val)

SettingsPayloads ==
    { UnparseableSettings, NullSettings, ArraySettings(<<"dark">>),
      Item([theme |-> "dark", notifications |-> FALSE]),
      Item([language |-> "hi", fontSize |-> "large"]) }

\* localStorage.setItem('soilstory_settings', text) from outside SoilStorage
SettingsWritten(p) ==
    /\ lsSettings' = p
    /\ UNCHANGED tabs
    /\ lastOp' = NoOp
    /\ lastEvent' = "localStorage.setItem"
    /\ UNCHANGED <<lsAnalyses, saveRun, clock, genCount>> /\ StoreStep

StoreGetSettings(env) ==
    StoreRead(ReadOp("getSettings", EmptyString, env, getSettings(lsSettings, env)))

\* exportData(): throws when the storage is unavailable; otherwise
\* JSON.parse of the text it returns, as importData reads it; analyses
\* passes Array.isArray unless getAnalyses() returned an object
exportData(analysesItem, settingsItem, env) ==
    IF ~isStorageAvailable(env) THEN [threw |-> TRUE]
    ELSE [threw |-> FALSE,
          parses |-> TRUE,
          hasAnalyses |-> ~NotAnArray(analysesItem, env),
          analyses |-> getAnalyses(analysesItem, env),
          settings |-> getSettings(settingsItem, env)]

\* importData(exportData()): when exportData throws importData is not
\* called
StoreExportImport(env) ==
    LET data == exportData(lsAnalyses, lsSettings, env)
        r == IF data.threw THEN [threw |-> TRUE, item |-> lsAnalyses]
             ELSE importData(lsAnalyses, data, env)
    IN  /\ lsAnalyses' = r.item
        /\ lsSettings' = IF data.threw THEN lsSettings
                         ELSE importDataSettings(lsSettings, data, env)
        /\ UNCHANGED tabs
        /\ lastOp' = [op |-> "exportImport", id |-> EmptyString,
                      upd |-> EmptyObject, rec |-> EmptyObject,
                      ok |-> ~r.threw, env |-> env]
        /\ saveRun' = IF r.threw \/ ~data.hasAnalyses THEN saveRun ELSE NoRun
        /\ lastEvent' = "storage.importData"
        /\ UNCHANGED <<clock, genCount>> /\ StoreStep

SettingsImports ==
    { [parses |-> TRUE, hasAnalyses |-> FALSE, analyses |-> <<>>,
       settings |-> [theme |-> "dark"]] }

NextSettings ==
    \/ \E a \in ReadSaveInputs : StoreSave(a, "ok", clock)
    \/ PayloadWritten(UnparseableItem)
    \/ \E p \in SettingsPayloads : SettingsWritten(p)
    \/ \E st \in SettingsInputs, env \in StorageEnvs : StoreSaveSettings(st, env)
    \/ \E d \in SettingsImports, env \in StorageEnvs : StoreImport(d, env)
    \/ \E env \in ReadEnvs : StoreGetSettings(env)
    \/ \E env \in StorageEnvs : StoreExportImport(env)

SpecSettings == InitStore /\ [][NextSettings]_vars

\* C31: getSettings() gives every default key the persisted value when the
\* persisted object has the key and the default otherwise, and gives exactly
\* the defaults when the storage is unavailable or the persisted payload is
\* not the text of a plain object
C31_SettingsMergeDefaults ==
    lastOp.op = "getSettings" =>
        LET out == lastOp.out
            plain == lsSettings.present /\ ~IsCorrupt(lsSettings)
                        /\ lastOp.env # "unavailable"
        IN  /\ DOMAIN getDefaultSettings \subseteq DOMAIN out
            /\ \A k \in DOMAIN getDefaultSettings :
                  out[k] = IF plain /\ k \in DOMAIN lsSettings.val
                           THEN lsSettings.val[k] ELSE getDefaultSettings[k]
            /\ (lastOp.env = "unavailable" \/ IsCorrupt(lsSettings)) =>
                  out = getDefaultSettings

\* C38: importData(exportData()) with the storage working leaves what
\* getAnalyses() and getSettings() return as it was
C38_ExportImportRoundTrip ==
    [][(lastOp'.op = "exportImport" /\ lastOp'.ok) =>
          /\ getAnalyses(lsAnalyses', "ok") = getAnalyses(lsAnalyses, "ok")
          /\ getSettings(lsSettings', "ok") = getSettings(lsSettings, "ok")
      ]_vars

C38_Witness ==
    /\ lastOp.op = "exportImport"
    /\ lastOp.ok
    /\ Len(Stored) = 2
    /\ Stored[1] # Stored[2]
    /\ lsSettings.present
    /\ ~IsCorrupt(lsSettings)
    /\ DOMAIN lsSettings.val = DOMAIN getDefaultSettings \cup {"fontSize"}
    /\ lsSettings.val.language = "hi"

----------------------------------------------------------------------------
(* Properties of the upload and of the session state *)

\* C32: an analyzeSoil call that was given a location with a latitude and a
\* longitude and made the remote request has both coordinates in the form
\* it uploads, whatever their values
C32_CoordinatesUploaded ==
    \A i \in DOMAIN analyzeCalls :
        LET c == analyzeCalls[i]
        IN  (c.requested /\ c.location # Null) =>
                /\ {"lat", "lon"} \subseteq DOMAIN c.form
                /\ c.form.lat = c.location[1].lat
                /\ c.form.lon = c.location[1].lon

\* C34: the session has a current analysis only while a photo is staged, and
\* the result of an analyze that completes after removePhoto() is neither
\* displayed nor saved
C34_AnalysisOnlyWithPhoto ==
    /\ currentAnalysis # Null => currentPhotoFile # Null
    /\ (lastAnalyze # Null /\ lastAnalyze[1].call.caller = "app"
          /\ currentPhotoFile = Null) => lastOp.op # "save"

\* C35: when the health probe is false, loadHistory shows the records that
\* are in local storage
C35_DemoHistoryShowsLocal ==
    (lastEvent = "loadHistory done" /\ ~historyView.probe /\ Stored # <<>>) =>
        /\ historyView.outcome = "records"
        /\ historyView.historyGrid = Stored

----------------------------------------------------------------------------
(* The upload: files at the limits of the validation *)

UploadFiles ==
    Files \cup
    { [name |-> "limit.png", type |-> <<"image/", "png">>, size |-> MaxUploadBytes],
      [name |-> "empty.gif", type |-> <<"image/", "gif">>, size |-> 0],
      [name |-> "blob", type |-> <<"", "">>, size |-> 1] }

\* the session with the backend unreachable
NextUpload ==
    \/ \E f \in UploadFiles : AppHandlePhotoUpload(f)
    \/ AppRemovePhoto
    \/ \E loc \in Locations : AppAnalyzeSoil(loc)
    \/ \E i \in DOMAIN analyzeCalls : AnalyzeHealthResolves(i, "error")
    \/ \E i \in DOMAIN analyzeCalls, now \in clock..MaxClock, d \in SharedDraws :
          AnalyzeDemoResolves(i, now, d, "ok")
    \/ CheckAPIStatusResolves("error", "ok")

SpecUpload == Init /\ [][NextUpload]_vars

\* type starts with 'image/' and size is at most 10 MB
PassesValidation(file) == file.type[1] = "image/" /\ file.size <= 10 * 1024 * 1024

\* C36: the staged file is null or a file that passes the validation, and
\* a handlePhotoUpload that shows one of the two rejections leaves the
\* staged file as it was
C36_StagedFileIsValid ==
    [][/\ currentPhotoFile # Null => PassesValidation(currentPhotoFile[1])
       /\ currentPhotoFile' # Null => PassesValidation(currentPhotoFile'[1])
       /\ (lastEvent' = "handlePhotoUpload" /\ alert' # "") =>
             currentPhotoFile' = currentPhotoFile
       /\ (lastEvent' = "handlePhotoUpload" /\ alert' = "") =>
             currentPhotoFile' # Null
      ]_vars

C36_Witness ==
    /\ lastEvent = "handlePhotoUpload"
    /\ alert = "Image file is too large. Please select an image under 10MB."
    /\ currentPhotoFile # Null
    /\ currentPhotoFile[1].size = MaxUploadBytes
    /\ currentAnalysis # Null

----------------------------------------------------------------------------
(* Pagination as a partition *)

RECURSIVE PagesFrom(_, _, _, _)
\* the data of the pages page..totalPages, one after the other
PagesFrom(item, page, totalPages, pageSize) ==
    IF page > totalPages THEN <<>>
    ELSE getAnalysesPaginated(item, page, pageSize, "ok").data
           \o PagesFrom(item, page + 1, totalPages, pageSize)

\* C37: for each page size, the pages 1..totalPages of the store, one after
\* the other, are getAnalyses(), no page has more than pageSize records, and
\* the page a call returned is the stretch of getAnalyses() from record
\* (page - 1) * pageSize + 1 to record page * pageSize
C37_PagesPartition ==
    /\ \A size \in PageSizes \cup {maxStorageSize} :
          LET totalPages == getAnalysesPaginated(lsAnalyses, 1, size, "ok").totalPages
          IN  /\ PagesFrom(lsAnalyses, 1, totalPages, size) = Stored
              /\ \A page \in 1..totalPages :
                    LET n == Len(getAnalysesPaginated(lsAnalyses, page, size, "ok").data)
                    IN  n >= 1 /\ n <= size
    /\ (lastOp.op = "getAnalysesPaginated" /\ lastOp.env = "ok"
          /\ lastOp.out.page \in 1..lastOp.out.totalPages) =>
            LET o == lastOp.out
                last == IF o.page * o.pageSize < Len(Stored)
                        THEN o.page * o.pageSize ELSE Len(Stored)
            IN  o.data = SubSeq(Stored, (o.page - 1) * o.pageSize + 1, last)

C37_Witness ==
    /\ lastOp.op = "getAnalysesPaginated"
    /\ lastOp.env = "ok"
    /\ Len(Stored) = 3
    /\ lastOp.out.page = 2
    /\ lastOp.out.pageSize = 2
    /\ lastOp.out.totalPages = 2
    /\ lastOp.out.data = <<Stored[3]>>
    /\ Stored[3] # Stored[1]

----------------------------------------------------------------------------
(* Two tabs saving to the same storage *)

\* the record tab t saves
TabRecord(t) == [id |-> <<"tab", t>>, story |-> "s1"]

\* saveAnalysis(analysis) up to the write: the array read by getAnalyses()
\* with the record at its head, cut to maxStorageSize
saveAnalysisRead(item, analysis, now) ==
    Splice(Unshift(getAnalyses(item, "ok"), WithIdAndTimestamp(analysis, now, 0)),
           maxStorageSize)

\* a write that reads the key again and puts the record on what is there
saveAnalysisWriteMerged(analyses, stored) ==
    Item(JsonList(Splice(Unshift(stored, analyses[1]), maxStorageSize)))

\* localStorage.setItem(this.analysesKey, JSON.stringify(analyses)): what
\* is stored at that moment is not looked at
saveAnalysisWrite(analyses, stored) == Item(JsonList(analyses))

\* tab t runs saveAnalysis as far as the array it will write
TabReads(t) ==
    /\ tabs[t].pc = "idle"
    /\ tabs' = [tabs EXCEPT ![t] =
                   [pc |-> "read",
                    analyses |-> saveAnalysisRead(lsAnalyses, TabRecord(t), clock),
                    analysis |-> TabRecord(t),
                    order |-> 0,
                    seen |-> {o \in Tabs : tabs[o].pc = "done"}]]
    /\ lastOp' = NoOp
    /\ lastEvent' = "tab.saveAnalysis read"
    /\ UNCHANGED <<lsAnalyses, lsSettings, clock, genCount, saveRun>> /\ StoreStep

\* tab t writes the array back
TabWrites(t) ==
    /\ tabs[t].pc = "read"
    /\ lsAnalyses' = saveAnalysisWrite(tabs[t].analyses, getAnalyses(lsAnalyses, "ok"))
    /\ tabs' = [tabs EXCEPT ![t].pc = "done",
                            ![t].order =
                                1 + Cardinality({o \in Tabs : tabs[o].pc = "done"})]
    /\ lastOp' = NoOp
    /\ saveRun' = NoRun
    /\ lastEvent' = "tab.saveAnalysis write"
    /\ UNCHANGED <<lsSettings, clock, genCount>> /\ StoreStep

NextTabs ==
    \/ /\ \A t \in Tabs : tabs[t].pc = "idle"
       /\ \E a \in ReadSaveInputs : StoreSave(a, "ok", clock)
    \/ \E t \in Tabs : TabReads(t)
    \/ \E t \in Tabs : TabWrites(t)

SpecTabs == InitStore /\ [][NextTabs]_vars

\* the collection has a record with the id of tab t's record
HasRecordOf(t) == \E i \in 1..Len(Stored) : Stored[i].id = TabRecord(t).id

\* C33: when both tabs have saved, the collection is the array of the tab
\* that wrote last, and the record of the other tab is in it exactly when
\* the last writer read the collection after the other tab had written: a
\* save whose read came before the other's write loses the other's record
C33_LastWriterWins ==
    (\A t \in Tabs : tabs[t].pc = "done") =>
        \E last \in Tabs :
            /\ tabs[last].order = Cardinality(Tabs)
            /\ Stored = tabs[last].analyses
            /\ HasRecordOf(last)
            /\ \A o \in Tabs \ {last} : HasRecordOf(o) <=> o \in tabs[last].seen

C33_Witness ==
    /\ \A t \in Tabs : tabs[t].pc = "done"
    /\ HasRecordOf(2)
    /\ ~HasRecordOf(1)
    /\ tabs[1].order = 1
    /\ Len(Stored) = 3

====
